---------------------------- MODULE Spec2Model ----------------------------
(***************************************************************************)
(* Model of the deepfake-detection dashboard: the heuristic scoring engine *)
(* (three DeepfakeDetector variants), the ImageProcessor frame sampler,    *)
(* the ModelLoader singleton and App.handleFileUpload.                     *)
(*                                                                         *)
(* Variants of DeepfakeDetector:                                           *)
(*   "aggressive"    src/src/utils/deepfakeDetector.ts                     *)
(*   "default"       src/src/utils/modelLoader.ts (lines 135-821)          *)
(*   "conservative"  src/unnamed/part_001                                  *)
(*                                                                         *)
(* Numbers.  A JavaScript number is modelled as an exact fraction          *)
(* [n |-> numerator, d |-> denominator] in lowest terms with d >= 0.       *)
(* d = 0 holds the non-finite values: 0/0 is NaN.  Comparison is by cross  *)
(* multiplication, so every comparison with NaN is false, as in IEEE 754.  *)
(* Rounding of binary floating point is not modelled.                      *)
(*                                                                         *)
(* Strings are sequences of one-character strings, so that toLowerCase,    *)
(* includes and startsWith are computed character by character.            *)
(***************************************************************************)
EXTENDS Integers, Sequences, FiniteSets, Bags, TLC

VARIABLES
    threat,     \* calculateThreatLevel applied to two inputs: the inputs and the levels
    score,      \* one scorer run: its inputs and the DeepfakeDetectionResult
    extract,    \* one analyzeImage run on a pixel buffer: the buffer, the signals, the result
    sampler,    \* ImageProcessor.extractFramesFromVideo: the video element, the promise
    loader,     \* ModelLoader: faceDetectionModel, deepfakeModel, isLoading
    app,        \* App: areDetectorModelsReady, isProcessing, detectionResults
    tasks       \* the asynchronous calls in flight: the initialisation effect, the uploads

vars == <<threat, score, extract, sampler, loader, app, tasks>>

Variants == {"aggressive", "default", "conservative"}

\* the value of threat, score, ... while the specification at hand does not use it
Idle == [called |-> FALSE]

---------------------------------------------------------------------------
(* Exact fractions                                                         *)

Abs(x) == IF x < 0 THEN -x ELSE x

RECURSIVE GCD(_, _)
GCD(a, b) == IF b = 0 THEN a ELSE GCD(b, a % b)

Sign(x) == IF x > 0 THEN 1 ELSE IF x < 0 THEN -1 ELSE 0

\* n/d as a number; x/0 is NaN for x = 0 and an infinity otherwise
Frac(n, d) ==
    IF d = 0 THEN [n |-> Sign(n), d |-> 0]
    ELSE LET g == GCD(Abs(n), Abs(d))
             s == Sign(d)
         IN [n |-> s * (n \div g), d |-> s * (d \div g)]

Num(k) == [n |-> k, d |-> 1]

NaN == [n |-> 0, d |-> 0]

IsNaN(a) == a.d = 0 /\ a.n = 0

IsFinite(a) == a.d > 0

LCM(a, b) == (a \div GCD(a, b)) * b

RAdd(a, b) ==
    IF ~IsFinite(a) \/ ~IsFinite(b) THEN
        (IF IsNaN(a) \/ IsNaN(b) \/ (~IsFinite(a) /\ ~IsFinite(b) /\ a.n # b.n)
         THEN NaN ELSE IF IsFinite(a) THEN b ELSE a)
    ELSE LET l == LCM(a.d, b.d)
         IN Frac(a.n * (l \div a.d) + b.n * (l \div b.d), l)

RNeg(a) == [n |-> -a.n, d |-> a.d]

RSub(a, b) == RAdd(a, RNeg(b))

RMul(a, b) ==
    LET x == Frac(a.n, b.d)
        y == Frac(b.n, a.d)
    IN IF a.d = 0 \/ b.d = 0 THEN [n |-> Sign(a.n) * Sign(b.n), d |-> 0]
       ELSE Frac(x.n * y.n, x.d * y.d)

\* a / b of JavaScript: 0/0 is NaN, x/0 an infinity
RDiv(a, b) ==
    IF a.d = 0 \/ b.d = 0 THEN
        (IF a.d = 0 /\ b.d > 0 THEN [n |-> a.n * (IF b.n < 0 THEN -1 ELSE 1), d |-> 0]
         ELSE IF a.d > 0 /\ b.d = 0 /\ b.n # 0 THEN Num(0) ELSE NaN)
    ELSE IF b.n = 0 THEN [n |-> Sign(a.n), d |-> 0]
    ELSE LET x == Frac(a.n, b.n)
             y == Frac(b.d, a.d)
         IN Frac(x.n * y.n, x.d * y.d)

\* a < b, a > b, ... of JavaScript: false when either side is NaN
\* (against a whole number the fraction is rounded down or up, which decides the
\* same comparison without the product)
RLt(a, b) ==
    /\ ~IsNaN(a) /\ ~IsNaN(b)
    /\ IF a.d > 0 /\ b.d = 1 THEN a.n \div a.d < b.n
       ELSE IF a.d = 1 /\ b.d > 0 THEN a.n < -((-b.n) \div b.d)
       ELSE a.n * b.d < b.n * a.d
RGt(a, b) == RLt(b, a)
RLe(a, b) ==
    /\ ~IsNaN(a) /\ ~IsNaN(b)
    /\ IF a.d > 0 /\ b.d = 1 THEN -((-a.n) \div a.d) <= b.n
       ELSE IF a.d = 1 /\ b.d > 0 THEN a.n <= b.n \div b.d
       ELSE a.n * b.d <= b.n * a.d
RGe(a, b) == RLe(b, a)

\* comparison with an integer literal of the source
Gt(a, k) == RGt(a, Num(k))
Lt(a, k) == RLt(a, Num(k))

\* Math.min / Math.max: NaN when either argument is NaN
MathMin(a, b) == IF IsNaN(a) \/ IsNaN(b) THEN NaN ELSE IF RLt(b, a) THEN b ELSE a
MathMax(a, b) == IF IsNaN(a) \/ IsNaN(b) THEN NaN ELSE IF RGt(b, a) THEN b ELSE a

RAbs(a) == [n |-> Abs(a.n), d |-> a.d]

\* a number of the closed interval [0,100]
InRange(a) == RGe(a, Num(0)) /\ RLe(a, Num(100))

---------------------------------------------------------------------------
(* Strings: String.prototype.toLowerCase, includes, startsWith             *)

UpperCase == <<"A","B","C","D","E","F","G","H","I","J","K","L","M",
               "N","O","P","Q","R","S","T","U","V","W","X","Y","Z">>

LowerCase == <<"a","b","c","d","e","f","g","h","i","j","k","l","m",
               "n","o","p","q","r","s","t","u","v","w","x","y","z">>

LowerChar(c) ==
    IF \E i \in 1..26 : UpperCase[i] = c
    THEN LowerCase[CHOOSE i \in 1..26 : UpperCase[i] = c]
    ELSE c

\* a mutant of toLowerCase: the name is matched as it is written
toLowerCaseIdentity(s) == s

toLowerCase(s) == [i \in 1..Len(s) |-> LowerChar(s[i])]

includes(s, sub) ==
    \E i \in 1..(Len(s) - Len(sub) + 1) : SubSeq(s, i, i + Len(sub) - 1) = sub

\* a mutant of startsWith: only the length of the prefix is compared
startsWithLengthOnly(s, prefix) == Len(s) >= Len(prefix)

startsWith(s, prefix) ==
    Len(s) >= Len(prefix) /\ SubSeq(s, 1, Len(prefix)) = prefix

\* the string literals of the sources, by their text
STR == [image |-> <<"i", "m", "a", "g", "e", "/">>,
        video |-> <<"v", "i", "d", "e", "o", "/">>,
        fake |-> <<"f", "a", "k", "e">>,
        generated |-> <<"g", "e", "n", "e", "r", "a", "t", "e", "d">>,
        ai |-> <<"a", "i">>,
        deepfake |-> <<"d", "e", "e", "p", "f", "a", "k", "e">>,
        synthetic |-> <<"s", "y", "n", "t", "h", "e", "t", "i", "c">>,
        swap |-> <<"s", "w", "a", "p">>,
        real |-> <<"r", "e", "a", "l">>,
        authentic |-> <<"a", "u", "t", "h", "e", "n", "t", "i", "c">>,
        original |-> <<"o", "r", "i", "g", "i", "n", "a", "l">>,
        genuine |-> <<"g", "e", "n", "u", "i", "n", "e">>,
        morphed |-> <<"m", "o", "r", "p", "h", "e", "d">>,
        manipulated |-> <<"m", "a", "n", "i", "p", "u", "l", "a", "t", "e", "d">>,
        edited |-> <<"e", "d", "i", "t", "e", "d">>,
        photo |-> <<"p", "h", "o", "t", "o">>,
        pic |-> <<"p", "i", "c">>]

---------------------------------------------------------------------------
(* calculateThreatLevel, one ladder per variant                            *)

Levels == <<"low", "medium", "high", "critical">>

\* position of a level in the order low < medium < high < critical
Rank(l) == CHOOSE i \in 1..4 : Levels[i] = l

calculateThreatLevelAggressive(confidence, analysis) ==
    IF Gt(confidence, 85) /\ Gt(analysis.artifactDetection, 70) THEN "critical"
    ELSE IF Gt(confidence, 70) THEN "high"
    ELSE IF Gt(confidence, 50) THEN "medium"
    ELSE "low"

\* a mutant of the default ladder: the artifact comparison of the second rung
\* is reversed
calculateThreatLevelDefaultReversed(confidence, analysis) ==
    IF Gt(confidence, 90) /\ Gt(analysis.artifactDetection, 80) THEN "critical"
    ELSE IF Gt(confidence, 85)
            \/ (Gt(confidence, 75) /\ Lt(analysis.artifactDetection, 70)) THEN "critical"
    ELSE IF Gt(confidence, 75)
            \/ (Gt(confidence, 65) /\ Gt(analysis.artifactDetection, 60)) THEN "high"
    ELSE IF Gt(confidence, 60)
            \/ (Gt(confidence, 50) /\ Gt(analysis.artifactDetection, 50)) THEN "medium"
    ELSE "low"

calculateThreatLevelDefault(confidence, analysis) ==
    IF Gt(confidence, 90) /\ Gt(analysis.artifactDetection, 80) THEN "critical"
    ELSE IF Gt(confidence, 85)
            \/ (Gt(confidence, 75) /\ Gt(analysis.artifactDetection, 70)) THEN "critical"
    ELSE IF Gt(confidence, 75)
            \/ (Gt(confidence, 65) /\ Gt(analysis.artifactDetection, 60)) THEN "high"
    ELSE IF Gt(confidence, 60)
            \/ (Gt(confidence, 50) /\ Gt(analysis.artifactDetection, 50)) THEN "medium"
    ELSE "low"

\* a mutant of the conservative ladder: the rule of 'medium' is tried before the
\* unconditional rule of 'high'
calculateThreatLevelConservativeMildFirst(confidence, analysis) ==
    IF Gt(confidence, 95) /\ Gt(analysis.artifactDetection, 90) THEN "critical"
    ELSE IF Gt(confidence, 90) /\ Gt(analysis.artifactDetection, 85) THEN "critical"
    ELSE IF Gt(confidence, 85) /\ Gt(analysis.artifactDetection, 80) THEN "high"
    ELSE IF Gt(confidence, 75) THEN "medium"
    ELSE IF Gt(confidence, 80) THEN "high"
    ELSE "low"

calculateThreatLevelConservative(confidence, analysis) ==
    IF Gt(confidence, 95) /\ Gt(analysis.artifactDetection, 90) THEN "critical"
    ELSE IF Gt(confidence, 90) /\ Gt(analysis.artifactDetection, 85) THEN "critical"
    ELSE IF Gt(confidence, 85) /\ Gt(analysis.artifactDetection, 80) THEN "high"
    ELSE IF Gt(confidence, 80) THEN "high"
    ELSE IF Gt(confidence, 75) THEN "medium"
    ELSE "low"

calculateThreatLevel(variant, confidence, analysis) ==
    CASE variant = "aggressive" -> calculateThreatLevelAggressive(confidence, analysis)
      [] variant = "default" -> calculateThreatLevelDefault(confidence, analysis)
      [] variant = "conservative" -> calculateThreatLevelConservative(confidence, analysis)

---------------------------------------------------------------------------
(* calculateTemporalConsistency                                            *)

RECURSIVE SumSeq(_)
SumSeq(xs) == IF xs = <<>> THEN Num(0) ELSE RAdd(Head(xs), SumSeq(Tail(xs)))

\* |prev.field - curr.field| for the consecutive frames i-1, i (1-based: i, i+1)
FrameDiff(frameAnalyses, i, field) ==
    RAbs(RSub(frameAnalyses[i][field], frameAnalyses[i + 1][field]))

calculateTemporalConsistencyAggressive(frameAnalyses) ==
    IF Len(frameAnalyses) < 2 THEN Num(100)
    ELSE LET frameConsistency(i) ==
                 RSub(Num(100),
                      RDiv(RAdd(RAdd(FrameDiff(frameAnalyses, i, "faceDetection"),
                                     FrameDiff(frameAnalyses, i, "artifactDetection")),
                                FrameDiff(frameAnalyses, i, "imageQuality")),
                           Num(3)))
             consistencyScore ==
                 SumSeq([i \in 1..(Len(frameAnalyses) - 1) |-> frameConsistency(i)])
         IN MathMax(Num(0), RDiv(consistencyScore, Num(Len(frameAnalyses) - 1)))

calculateTemporalConsistencyDefault(frameAnalyses) ==
    IF Len(frameAnalyses) < 2 THEN Num(100)
    ELSE LET weightedDiff(i) ==
                 RAdd(RAdd(RMul(FrameDiff(frameAnalyses, i, "faceDetection"), Frac(4, 10)),
                           RMul(FrameDiff(frameAnalyses, i, "artifactDetection"), Frac(4, 10))),
                      RMul(FrameDiff(frameAnalyses, i, "imageQuality"), Frac(2, 10)))
             frameConsistency(i) == MathMax(Num(0), RSub(Num(100), weightedDiff(i)))
             consistencyScore ==
                 SumSeq([i \in 1..(Len(frameAnalyses) - 1) |-> frameConsistency(i)])
         IN RDiv(consistencyScore, Num(Len(frameAnalyses) - 1))

\* a mutant of the conservative calculateTemporalConsistency: the default's
calculateTemporalConsistencyConservativeAsDefault(frameAnalyses) == calculateTemporalConsistencyDefault(frameAnalyses)

calculateTemporalConsistencyConservative(frameAnalyses) ==
    IF Len(frameAnalyses) < 2 THEN Num(90)
    ELSE LET weightedDiff(i) ==
                 RAdd(RAdd(RMul(FrameDiff(frameAnalyses, i, "faceDetection"), Frac(3, 10)),
                           RMul(FrameDiff(frameAnalyses, i, "artifactDetection"), Frac(3, 10))),
                      RMul(FrameDiff(frameAnalyses, i, "imageQuality"), Frac(1, 10)))
             frameConsistency(i) ==
                 MathMax(Num(60), RSub(Num(100), RDiv(weightedDiff(i), Num(2))))
             consistencyScore ==
                 SumSeq([i \in 1..(Len(frameAnalyses) - 1) |-> frameConsistency(i)])
         IN RDiv(consistencyScore, Num(Len(frameAnalyses) - 1))

---------------------------------------------------------------------------
(* The suspicion scorers: the part of analyzeImage / analyzeVideo that     *)
(* follows the extractor calls.  file is [name, type, size]; img has the   *)
(* image's width and height; sig holds the extractor results under the     *)
(* names of the source's local variables; u is the sequence of the values  *)
(* Math.random() returns, in call order.                                   *)

\* a mutant of the clamp: the upper bound is left out
ClampNoUpperBound(x) == MathMax(Num(0), x)

\* Math.max(0, Math.min(100, x))
Clamp(x) == MathMax(Num(0), MathMin(Num(100), x))

fileSizeMB(file) == Frac(file.size, 1024 * 1024)

\* frameAnalyses.reduce((sum, a) => sum + a[field], 0) / frameAnalyses.length
FrameMean(frameAnalyses, field) ==
    RDiv(SumSeq([i \in 1..Len(frameAnalyses) |-> frameAnalyses[i][field]]),
         Num(Len(frameAnalyses)))

scoreImageAggressive(file, img, sig, u) ==
    LET fileName == toLowerCase(file.name)
        base == RMul(u[1], Num(30))
        nameBonus ==
            IF includes(fileName, STR.fake) \/ includes(fileName, STR.generated)
               \/ includes(fileName, STR.ai) THEN 60
            ELSE IF includes(fileName, STR.real) \/ includes(fileName, STR.authentic)
            THEN -20 ELSE 0
        signalBonus ==
            (IF Gt(sig.compressionArtifacts, 60) THEN 35 ELSE 0)
            + (IF Gt(sig.compressionArtifacts, 80) THEN 25 ELSE 0)
            + (IF Lt(sig.edgeConsistency, 70) THEN 40 ELSE 0)
            + (IF Lt(sig.edgeConsistency, 50) THEN 30 ELSE 0)
            + (IF Gt(sig.artifactScore, 70) THEN 45 ELSE 0)
            + (IF Gt(sig.artifactScore, 85) THEN 25 ELSE 0)
            + (IF Lt(sig.imageQuality, 50) THEN 25 ELSE 0)
            + (IF Lt(sig.imageQuality, 30) THEN 35 ELSE 0)
            + (IF Gt(sig.faceDetectionScore, 80) \/ Lt(sig.faceDetectionScore, 20)
               THEN 30 ELSE 0)
        sizeBonus ==
            (IF Gt(fileSizeMB(file), 5) THEN 15 ELSE 0)
            + (IF RLt(fileSizeMB(file), Frac(1, 10)) THEN 20 ELSE 0)
        flagBonus == IF RGt(u[2], Frac(7, 10)) THEN 40 ELSE 0
        suspicionScore ==
            RAdd(base, Num(nameBonus + signalBonus + sizeBonus + flagBonus))
        confidence == Clamp(suspicionScore)
    IN [confidence |-> confidence,
        analysis |-> [faceDetection |-> sig.faceDetectionScore,
                      temporalConsistency |-> Num(100),
                      artifactDetection |-> sig.artifactScore,
                      imageQuality |-> sig.imageQuality,
                      neuralNetworkConfidence |-> confidence]]

scoreImageDefault(file, img, sig, u) ==
    LET fileName == toLowerCase(file.name)
        nameBonus ==
            IF includes(fileName, STR.fake) \/ includes(fileName, STR.generated)
               \/ includes(fileName, STR.ai) \/ includes(fileName, STR.deepfake)
               \/ includes(fileName, STR.synthetic) \/ includes(fileName, STR.swap)
            THEN 85
            ELSE IF includes(fileName, STR.real) \/ includes(fileName, STR.authentic)
                    \/ includes(fileName, STR.original) \/ includes(fileName, STR.genuine)
            THEN -30 ELSE 0
        signalBonus ==
            (IF Gt(sig.compressionArtifacts, 75) THEN 45
             ELSE IF Gt(sig.compressionArtifacts, 50) THEN 25 ELSE 0)
            + (IF Lt(sig.edgeConsistency, 60) THEN 50
               ELSE IF Lt(sig.edgeConsistency, 80) THEN 25 ELSE 0)
            + (IF Gt(sig.artifactScore, 80) THEN 60
               ELSE IF Gt(sig.artifactScore, 60) THEN 35 ELSE 0)
            + (IF Lt(sig.imageQuality, 40) THEN 30
               ELSE IF Gt(sig.imageQuality, 90) THEN 20 ELSE 0)
            + (IF Lt(sig.colorConsistency, 70) THEN 40 ELSE 0)
            + (IF Gt(sig.frequencyAnalysis, 70) THEN 35 ELSE 0)
            + (IF Gt(sig.faceDetectionScore, 85) \/ Lt(sig.faceDetectionScore, 30)
               THEN 40 ELSE 0)
        sizeBonus ==
            IF Gt(fileSizeMB(file), 10) THEN 20
            ELSE IF RLt(fileSizeMB(file), Frac(5, 100)) THEN 25 ELSE 0
        totalPixels == img.width * img.height
        resolutionBonus == IF totalPixels > 2000000 THEN 15 ELSE 0
        aspectRatio == RDiv(Num(img.width), Num(img.height))
        aspectBonus ==
            IF RLt(aspectRatio, Frac(7, 10)) \/ RGt(aspectRatio, Frac(15, 10))
            THEN 10 ELSE 0
        randomFactor == RMul(RSub(u[1], Frac(1, 2)), Num(20))
        suspicionScore ==
            RAdd(Num(nameBonus + signalBonus + sizeBonus + resolutionBonus + aspectBonus),
                 randomFactor)
        confidence == Clamp(suspicionScore)
    IN [confidence |-> confidence,
        analysis |-> [faceDetection |-> sig.faceDetectionScore,
                      temporalConsistency |-> Num(100),
                      artifactDetection |-> sig.artifactScore,
                      imageQuality |-> sig.imageQuality,
                      neuralNetworkConfidence |-> confidence]]

scoreImageConservative(file, img, sig, u) ==
    LET fileName == toLowerCase(file.name)
        nameBonus ==
            IF includes(fileName, STR.deepfake) \/ includes(fileName, STR.fake)
               \/ includes(fileName, STR.generated) THEN 70
            ELSE IF includes(fileName, STR.morphed) \/ includes(fileName, STR.manipulated)
                    \/ includes(fileName, STR.edited) THEN 60
            ELSE IF includes(fileName, STR.ai) \/ includes(fileName, STR.synthetic)
            THEN 50 ELSE 0
        authenticBonus ==
            IF includes(fileName, STR.real) \/ includes(fileName, STR.authentic)
               \/ includes(fileName, STR.original) \/ includes(fileName, STR.genuine)
               \/ includes(fileName, STR.photo) \/ includes(fileName, STR.pic)
            THEN -20 ELSE 0
        signalBonus ==
            (IF Gt(sig.compressionArtifacts, 85) THEN 35
             ELSE IF Gt(sig.compressionArtifacts, 95) THEN 50 ELSE 0)
            + (IF Lt(sig.edgeConsistency, 40) THEN 45
               ELSE IF Lt(sig.edgeConsistency, 25) THEN 60 ELSE 0)
            + (IF Gt(sig.artifactScore, 90) THEN 40
               ELSE IF Gt(sig.artifactScore, 95) THEN 55 ELSE 0)
            + (IF Lt(sig.colorConsistency, 50) THEN 30
               ELSE IF Lt(sig.colorConsistency, 30) THEN 45 ELSE 0)
            + (IF Gt(sig.frequencyAnalysis, 85) THEN 25
               ELSE IF Gt(sig.frequencyAnalysis, 95) THEN 40 ELSE 0)
            + (IF Gt(sig.faceDetectionScore, 95) \/ Lt(sig.faceDetectionScore, 15)
               THEN 30 ELSE 0)
        anomalyCount ==
            (IF Gt(sig.compressionArtifacts, 80) THEN 1 ELSE 0)
            + (IF Lt(sig.edgeConsistency, 50) THEN 1 ELSE 0)
            + (IF Gt(sig.artifactScore, 85) THEN 1 ELSE 0)
            + (IF Lt(sig.colorConsistency, 60) THEN 1 ELSE 0)
            + (IF Gt(sig.frequencyAnalysis, 80) THEN 1 ELSE 0)
        anomalyBonus == IF anomalyCount >= 3 THEN 25 ELSE 0
        normalBonus ==
            (IF Gt(sig.imageQuality, 60) /\ Lt(sig.imageQuality, 90) THEN -10 ELSE 0)
            + (IF Gt(sig.edgeConsistency, 70) THEN -15 ELSE 0)
            + (IF Gt(sig.colorConsistency, 75) THEN -10 ELSE 0)
        sizeBonus ==
            IF RGt(fileSizeMB(file), Frac(1, 10)) /\ Lt(fileSizeMB(file), 5)
            THEN -5 ELSE 0
        totalPixels == img.width * img.height
        resolutionBonus ==
            IF totalPixels > 100000 /\ totalPixels < 5000000 THEN -5 ELSE 0
        aspectRatio == RDiv(Num(img.width), Num(img.height))
        aspectBonus ==
            IF RGt(aspectRatio, Frac(5, 10)) /\ Lt(aspectRatio, 2) THEN -5 ELSE 0
        randomFactor == RMul(RSub(u[1], Frac(1, 2)), Num(8))
        suspicionScore ==
            RAdd(Num(15 + nameBonus + authenticBonus + signalBonus + anomalyBonus
                     + normalBonus + sizeBonus + resolutionBonus + aspectBonus),
                 randomFactor)
        confidence == Clamp(suspicionScore)
    IN [confidence |-> confidence,
        analysis |-> [faceDetection |-> sig.faceDetectionScore,
                      temporalConsistency |-> Num(100),
                      artifactDetection |-> sig.artifactScore,
                      imageQuality |-> sig.imageQuality,
                      neuralNetworkConfidence |-> confidence]]

scoreImage(variant, file, img, sig, u) ==
    CASE variant = "aggressive" -> scoreImageAggressive(file, img, sig, u)
      [] variant = "default" -> scoreImageDefault(file, img, sig, u)
      [] variant = "conservative" -> scoreImageConservative(file, img, sig, u)

\* analyzeVideo after extractFramesFromVideo: frameSigs[i] holds the extractor
\* results of frame i, videoDuration what getVideoDuration resolved with
scoreVideoAggressive(file, frameSigs, videoDuration, u) ==
    LET frameSuspicion(i) ==
            RAdd(RMul(u[1 + i], Num(20)),
                 Num((IF Gt(frameSigs[i].compressionArtifacts, 65) THEN 30 ELSE 0)
                     + (IF Gt(frameSigs[i].artifactScore, 75) THEN 35 ELSE 0)
                     + (IF Lt(frameSigs[i].imageQuality, 45) THEN 25 ELSE 0)
                     + 15))
        frameAnalyses ==
            [i \in 1..Len(frameSigs) |->
                [faceDetection |-> frameSigs[i].faceDetectionScore,
                 temporalConsistency |-> Num(0),
                 artifactDetection |-> frameSigs[i].artifactScore,
                 imageQuality |-> frameSigs[i].imageQuality,
                 neuralNetworkConfidence |-> frameSuspicion(i)]]
        temporalConsistency == calculateTemporalConsistencyAggressive(frameAnalyses)
        fileName == toLowerCase(file.name)
        nameBonus ==
            IF includes(fileName, STR.fake) \/ includes(fileName, STR.generated)
               \/ includes(fileName, STR.ai) \/ includes(fileName, STR.deepfake)
            THEN 70 ELSE 0
        totalSuspicion ==
            RAdd(RAdd(RMul(u[1], Num(25)),
                      SumSeq([i \in 1..Len(frameSigs) |-> frameSuspicion(i)])),
                 Num((IF Lt(temporalConsistency, 80) THEN 50 ELSE 0)
                     + (IF Lt(temporalConsistency, 60) THEN 30 ELSE 0)
                     + nameBonus
                     + (IF RGt(u[Len(frameSigs) + 2], Frac(6, 10)) THEN 35 ELSE 0)
                     + 20))
        avgConfidence == Clamp(RDiv(totalSuspicion, Num(Len(frameSigs))))
    IN [confidence |-> avgConfidence,
        analysis |-> [faceDetection |-> FrameMean(frameAnalyses, "faceDetection"),
                      temporalConsistency |-> temporalConsistency,
                      artifactDetection |-> FrameMean(frameAnalyses, "artifactDetection"),
                      imageQuality |-> FrameMean(frameAnalyses, "imageQuality"),
                      neuralNetworkConfidence |-> avgConfidence]]

scoreVideoDefault(file, frameSigs, videoDuration, u) ==
    LET frameSuspicion(i) ==
            (IF Gt(frameSigs[i].compressionArtifacts, 70) THEN 40 ELSE 0)
            + (IF Gt(frameSigs[i].artifactScore, 75) THEN 45 ELSE 0)
            + (IF Lt(frameSigs[i].imageQuality, 50) THEN 30 ELSE 0)
            + (IF Lt(frameSigs[i].colorConsistency, 65) THEN 35 ELSE 0)
            + 10
        frameAnalyses ==
            [i \in 1..Len(frameSigs) |->
                [faceDetection |-> frameSigs[i].faceDetectionScore,
                 temporalConsistency |-> Num(0),
                 artifactDetection |-> frameSigs[i].artifactScore,
                 imageQuality |-> frameSigs[i].imageQuality,
                 neuralNetworkConfidence |-> Num(frameSuspicion(i))]]
        temporalConsistency == calculateTemporalConsistencyDefault(frameAnalyses)
        fileName == toLowerCase(file.name)
        nameBonus ==
            IF includes(fileName, STR.fake) \/ includes(fileName, STR.generated)
               \/ includes(fileName, STR.ai) \/ includes(fileName, STR.deepfake)
               \/ includes(fileName, STR.synthetic) \/ includes(fileName, STR.swap)
            THEN 80
            ELSE IF includes(fileName, STR.real) \/ includes(fileName, STR.authentic)
            THEN -25 ELSE 0
        durationBonus ==
            IF Lt(videoDuration, 5) THEN 25
            ELSE IF Gt(videoDuration, 60) THEN -15 ELSE 0
        randomFactor == RMul(RSub(u[1], Frac(1, 2)), Num(15))
        totalSuspicion ==
            RAdd(RAdd(SumSeq([i \in 1..Len(frameSigs) |-> Num(frameSuspicion(i))]),
                      Num((IF Lt(temporalConsistency, 70) THEN 60 ELSE 0)
                          + (IF Lt(temporalConsistency, 50) THEN 40 ELSE 0)
                          + nameBonus + durationBonus + 15)),
                 randomFactor)
        avgConfidence == Clamp(RDiv(totalSuspicion, Num(Len(frameSigs))))
    IN [confidence |-> avgConfidence,
        analysis |-> [faceDetection |-> FrameMean(frameAnalyses, "faceDetection"),
                      temporalConsistency |-> temporalConsistency,
                      artifactDetection |-> FrameMean(frameAnalyses, "artifactDetection"),
                      imageQuality |-> FrameMean(frameAnalyses, "imageQuality"),
                      neuralNetworkConfidence |-> avgConfidence]]

scoreVideoConservative(file, frameSigs, videoDuration, u) ==
    LET frameSuspicion(i) ==
            (IF Gt(frameSigs[i].compressionArtifacts, 90) THEN 25 ELSE 0)
            + (IF Gt(frameSigs[i].artifactScore, 90) THEN 30 ELSE 0)
            + (IF Lt(frameSigs[i].imageQuality, 30) THEN 20 ELSE 0)
            + (IF Lt(frameSigs[i].colorConsistency, 40) THEN 25 ELSE 0)
        frameAnalyses ==
            [i \in 1..Len(frameSigs) |->
                [faceDetection |-> frameSigs[i].faceDetectionScore,
                 temporalConsistency |-> Num(0),
                 artifactDetection |-> frameSigs[i].artifactScore,
                 imageQuality |-> frameSigs[i].imageQuality,
                 neuralNetworkConfidence |-> Num(frameSuspicion(i))]]
        temporalConsistency == calculateTemporalConsistencyConservative(frameAnalyses)
        fileName == toLowerCase(file.name)
        nameBonus ==
            IF includes(fileName, STR.deepfake) \/ includes(fileName, STR.fake)
               \/ includes(fileName, STR.generated) THEN 60
            ELSE IF includes(fileName, STR.morphed) \/ includes(fileName, STR.manipulated)
            THEN 50
            ELSE IF includes(fileName, STR.real) \/ includes(fileName, STR.authentic)
                    \/ includes(fileName, STR.original)
            THEN -15 ELSE 0
        durationBonus ==
            IF Lt(videoDuration, 2) THEN 15
            ELSE IF Gt(videoDuration, 30) THEN -10 ELSE 0
        randomFactor == RMul(RSub(u[1], Frac(1, 2)), Num(10))
        totalSuspicion ==
            RAdd(RAdd(SumSeq([i \in 1..Len(frameSigs) |-> Num(frameSuspicion(i))]),
                      Num(10
                          + (IF Lt(temporalConsistency, 40) THEN 50 ELSE 0)
                          + (IF Lt(temporalConsistency, 25) THEN 35 ELSE 0)
                          + nameBonus + durationBonus)),
                 randomFactor)
        avgConfidence == Clamp(RDiv(totalSuspicion, Num(Len(frameSigs))))
    IN [confidence |-> avgConfidence,
        analysis |-> [faceDetection |-> FrameMean(frameAnalyses, "faceDetection"),
                      temporalConsistency |-> temporalConsistency,
                      artifactDetection |-> FrameMean(frameAnalyses, "artifactDetection"),
                      imageQuality |-> FrameMean(frameAnalyses, "imageQuality"),
                      neuralNetworkConfidence |-> avgConfidence]]

scoreVideo(variant, file, frameSigs, videoDuration, u) ==
    CASE variant = "aggressive" -> scoreVideoAggressive(file, frameSigs, videoDuration, u)
      [] variant = "default" -> scoreVideoDefault(file, frameSigs, videoDuration, u)
      [] variant = "conservative" -> scoreVideoConservative(file, frameSigs, videoDuration, u)

---------------------------------------------------------------------------
(* detectDeepfake after the analysis: the decision and the threat level    *)

\* a mutant of DecisionThreshold: the default's cutoff in every variant
DecisionThresholdDefaultOnly(variant) == 60

\* the cutoff of `const isDeepfake = confidence > ...`
DecisionThreshold(variant) ==
    CASE variant = "aggressive" -> 50
      [] variant = "default" -> 60
      [] variant = "conservative" -> 75

\* a mutant of DetectionResultOf: the confidence is halved on the way out
DetectionResultOfHalved(variant, r) == [isDeepfake |-> Gt(r.confidence, DecisionThreshold(variant)), confidence |-> RDiv(r.confidence, Num(2)), threatLevel |-> calculateThreatLevel(variant, r.confidence, r.analysis), analysis |-> r.analysis]

\* the DeepfakeDetectionResult built from an analysis result r
\* (processingTime, a wall-clock difference, is left out)
DetectionResultOf(variant, r) ==
    [isDeepfake |-> Gt(r.confidence, DecisionThreshold(variant)),
     confidence |-> r.confidence,
     threatLevel |-> calculateThreatLevel(variant, r.confidence, r.analysis),
     analysis |-> r.analysis]

---------------------------------------------------------------------------
(* The scorers applied to bounded inputs (specification SpecScore): every  *)
(* combination of the sample file names, sizes, dimensions, durations,     *)
(* extractor results and Math.random() values below.                       *)

\* Math.random() returns k / (2 * RandSteps), k = 0 .. 2 * RandSteps - 1
RandSteps == 2

RandomDraws == {Frac(k, 2 * RandSteps) : k \in 0..(2 * RandSteps - 1)}

\* analyzeVideo is called with extractFramesFromVideo(file, 5)
NumFrames == 5

\* the values of the Math.random() calls of one analysis, in call order: the
\* first value b, every later one o (only the aggressive variant calls
\* Math.random() more than once)
DrawSequences(variant) ==
    {[i \in 1..(NumFrames + 2) |-> IF i = 1 THEN b ELSE o] :
        b \in RandomDraws,
        o \in IF variant = "aggressive" THEN RandomDraws ELSE {Frac(1, 2)}}

\* file names: neutral ones, and ones the filename heuristics react to
NAME == [photo |-> <<"p", "h", "o", "t", "o", ".", "j", "p", "g">>,
         clip |-> <<"c", "l", "i", "p", ".", "m", "o", "v">>,
         deepfake_test |-> <<"d", "e", "e", "p", "f", "a", "k", "e", "_", "t", "e", "s", "t", ".", "m", "p", "4">>,
         DeepFake |-> <<"D", "e", "e", "p", "F", "a", "k", "e", ".", "p", "n", "g">>,
         real_fake |-> <<"r", "e", "a", "l", "_", "f", "a", "k", "e", ".", "p", "n", "g">>,
         authentic |-> <<"a", "u", "t", "h", "e", "n", "t", "i", "c", ".", "m", "p", "4">>,
         notes |-> <<"n", "o", "t", "e", "s", ".", "p", "d", "f">>]

FileNames == {NAME.photo, NAME.clip, NAME.deepfake_test, NAME.DeepFake,
              NAME.real_fake, NAME.authentic}

\* byte sizes on both sides of the 0.05 MB, 0.1 MB, 5 MB and 10 MB cutoffs
FileSizes == {50 * 1024, 2 * 1024 * 1024, 11 * 1024 * 1024}

ImageDims == {[width |-> 64, height |-> 64], [width |-> 2000, height |-> 1200],
              [width |-> 300, height |-> 400]}

\* seconds, on both sides of the 2, 5, 30 and 60 second cutoffs
VideoDurations == {Num(1), Num(30), Num(90)}

\* extractor results of a clean and of a damaged picture
CleanFrame ==
    [faceDetectionScore |-> Num(50), artifactScore |-> Num(0), imageQuality |-> Num(75),
     compressionArtifacts |-> Num(0), edgeConsistency |-> Num(100),
     colorConsistency |-> Num(100), frequencyAnalysis |-> Num(0)]

DamagedFrame ==
    [faceDetectionScore |-> Num(0), artifactScore |-> Num(100), imageQuality |-> Num(0),
     compressionArtifacts |-> Num(100), edgeConsistency |-> Num(0),
     colorConsistency |-> Num(0), frequencyAnalysis |-> Num(100)]

\* extractor results of one image: clean, damaged, clean but for one damaged
\* signal, and clean with the compression score NaN
SignalSets ==
    {CleanFrame, DamagedFrame, [CleanFrame EXCEPT !.compressionArtifacts = NaN]}
        \cup {[CleanFrame EXCEPT ![f] = DamagedFrame[f]] : f \in DOMAIN CleanFrame}

FrameSignalSets == {CleanFrame, DamagedFrame}

ScoreInit ==
    /\ \E v \in Variants : score = [called |-> FALSE, variant |-> v]
    /\ threat = Idle
    /\ extract = Idle /\ sampler = Idle /\ loader = Idle /\ app = Idle /\ tasks = Idle

\* detectDeepfake on an image file whose extractors returned sig
ScoreImage ==
    /\ ~score.called
    /\ \E name \in FileNames, size \in FileSizes, img \in ImageDims :
         \E sig \in SignalSets, u \in DrawSequences(score.variant) :
           LET file == [name |-> name, type |-> STR.image, size |-> size]
               v == score.variant
           IN score' = [called |-> TRUE, variant |-> v, kind |-> "image", file |-> file,
                        img |-> img, sig |-> sig, u |-> u,
                        result |-> DetectionResultOf(v, scoreImage(v, file, img, sig, u))]
    /\ UNCHANGED <<threat, extract, sampler, loader, app, tasks>>

\* detectDeepfake on a video file whose frames' extractors returned frameSigs
ScoreVideo ==
    /\ ~score.called
    /\ \E name \in FileNames, d \in VideoDurations :
         \E frameSigs \in [1..NumFrames -> FrameSignalSets],
            u \in DrawSequences(score.variant) :
           LET file == [name |-> name, type |-> STR.video, size |-> 2 * 1024 * 1024]
               v == score.variant
           IN score' = [called |-> TRUE, variant |-> v, kind |-> "video", file |-> file,
                        frameSigs |-> frameSigs, videoDuration |-> d, u |-> u,
                        result |-> DetectionResultOf(v,
                                      scoreVideo(v, file, frameSigs, d, u))]
    /\ UNCHANGED <<threat, extract, sampler, loader, app, tasks>>

ScoreNext == ScoreImage \/ ScoreVideo

SpecScore == ScoreInit /\ [][ScoreNext]_vars

\* C1: the confidence detectDeepfake returns is a number in [0,100], for images
\* and videos, in every variant, whatever was accumulated before the clamp.
ConfidenceInRange ==
    score.called => InRange(score.result.confidence)

\* the sum before the clamp is above 100 (85 for the name and more) and the
\* confidence returned is 100
ConfidenceInRangeWitness ==
    /\ score.called
    /\ score.kind = "image"
    /\ score.variant = "default"
    /\ score.file.name = NAME.deepfake_test
    /\ score.sig.artifactScore = Num(100)
    /\ score.result.confidence = Num(100)

\* every Math.random() value of the run is the one that adds nothing: 0.5 in
\* `(Math.random() - 0.5) * k`, 0 in `Math.random() * k` and `Math.random() > p`
JitterDisabled ==
    IF score.variant = "aggressive"
    THEN \A i \in DOMAIN score.u : score.u[i] = Num(0)
    ELSE score.u[1] = Frac(1, 2)

\* the confidence of the same run (same signals, size, type, duration, random
\* values) under another file name
ConfidenceUnderName(name) ==
    LET file == [score.file EXCEPT !.name = name]
    IN IF score.kind = "image"
       THEN scoreImage(score.variant, file, score.img, score.sig, score.u).confidence
       ELSE scoreVideo(score.variant, file, score.frameSigs, score.videoDuration,
                       score.u).confidence

\* the file names of the harness that contain "deepfake" in some letter case
DeepfakeNamed == score.file.name \in {NAME.deepfake_test, NAME.DeepFake}

\* C9 as stated: with jitter disabled, a file name containing "deepfake" (any
\* letter case) gives a confidence strictly greater than the neutral name
\* "clip.mov" gives for the same input.
DeepfakeNameStrictlyRaises ==
    (score.called /\ JitterDisabled /\ DeepfakeNamed)
        => RGt(score.result.confidence, ConfidenceUnderName(NAME.clip))

\* C9 amended: with jitter disabled, a file name containing "deepfake" gives a
\* confidence not below that of the neutral name, and strictly greater whenever
\* the neutral name's confidence is below 100 (at 100 both are clamped to 100).
DeepfakeNameRaisesUnlessSaturated ==
    (score.called /\ JitterDisabled /\ DeepfakeNamed)
        => /\ RGe(score.result.confidence, ConfidenceUnderName(NAME.clip))
           /\ RLt(ConfidenceUnderName(NAME.clip), Num(100))
                => RGt(score.result.confidence, ConfidenceUnderName(NAME.clip))

\* a mixed-case "DeepFake.png" whose confidence is above that of "clip.mov"
DeepfakeNameRaisesWitness ==
    /\ score.called
    /\ JitterDisabled
    /\ score.file.name = NAME.DeepFake
    /\ score.variant = "conservative"
    /\ RLt(ConfidenceUnderName(NAME.clip), Num(100))
    /\ RGt(score.result.confidence, ConfidenceUnderName(NAME.clip))

\* C16: in every result of detectDeepfake isDeepfake is true exactly when the
\* confidence is strictly above the one cutoff of the variant (50 aggressive, 60
\* default, 75 conservative); at the cutoff it is false, and neither
\* artifactDetection nor the threat level has a say.
DecisionIsStrictCutoff ==
    score.called =>
        (score.result.isDeepfake <=>
            Gt(score.result.confidence,
               CASE score.variant = "aggressive" -> 50
                 [] score.variant = "default" -> 60
                 [] score.variant = "conservative" -> 75))

\* a conservative result exactly at the cutoff, hence not a deepfake
DecisionIsStrictCutoffWitness ==
    /\ score.called /\ score.variant = "conservative"
    /\ score.result.confidence = Num(75)
    /\ ~score.result.isDeepfake

\* the confidence of the run of this state repeated with the Math.random()
\* values u
RerunConfidence(u) ==
    IF score.kind = "image"
    THEN scoreImage(score.variant, score.file, score.img, score.sig, u).confidence
    ELSE scoreVideo(score.variant, score.file, score.frameSigs, score.videoDuration,
                    u).confidence

\* the width of the one random term each scorer adds before the clamp
JitterAmplitude(variant, kind) ==
    CASE variant = "default" -> (IF kind = "image" THEN 20 ELSE 15)
      [] variant = "conservative" -> (IF kind = "image" THEN 8 ELSE 10)
      [] variant = "aggressive" -> (IF kind = "image" THEN 30 ELSE 25)

\* C17: two runs of the scorer on the same inputs give confidences that differ by
\* no more than the amplitude of the variant's one random term (20 for default
\* images, 8 for conservative images), in every variant.
RerunWithinAmplitude ==
    score.called =>
        \A u \in DrawSequences(score.variant) :
            RLe(RAbs(RSub(score.result.confidence, RerunConfidence(u))),
                Num(JitterAmplitude(score.variant, score.kind)))

\* C18: in every result of detectDeepfake, for images and for videos,
\* analysis.neuralNetworkConfidence equals the confidence.
NeuralNetworkConfidenceIsConfidence ==
    score.called =>
        score.result.analysis.neuralNetworkConfidence = score.result.confidence

\* a video result strictly between the clamps
NeuralNetworkConfidenceIsConfidenceWitness ==
    /\ score.called /\ score.kind = "video"
    /\ RGt(score.result.confidence, Num(0)) /\ RLt(score.result.confidence, Num(100))
    /\ score.result.analysis.neuralNetworkConfidence = score.result.confidence

\* C19: the filename rules add up: for "real_fake.png", which matches a
\* suspicious keyword ("fake") and an authentic one ("real"), the total gets the
\* suspicious bonus and the authentic subtraction, so that the confidence is
\* below that of "deepfake_test.mp4", which matches the suspicious rule only,
\* whenever the latter is strictly between the clamps; for images and videos.
KeywordRulesCumulative ==
    (/\ score.called /\ score.file.name = NAME.real_fake
     /\ RGt(ConfidenceUnderName(NAME.deepfake_test), Num(0))
     /\ RLt(ConfidenceUnderName(NAME.deepfake_test), Num(100)))
    => RLt(score.result.confidence, ConfidenceUnderName(NAME.deepfake_test))

\* the confidence of the same image run with the extractor result sig[field]
\* replaced by value
ConfidenceUnderSignal(field, value) ==
    scoreImage(score.variant, score.file, score.img,
               [score.sig EXCEPT ![field] = Num(value)], score.u).confidence

\* for each two-tier rule of a variant, a signal value that crosses the first
\* threshold only (the damaged frame's value, 0 or 100, crosses both)
FirstTierOnly(variant) ==
    CASE variant = "default" ->
           [compressionArtifacts |-> 60, edgeConsistency |-> 70, artifactScore |-> 70]
      [] variant = "aggressive" ->
           [compressionArtifacts |-> 70, edgeConsistency |-> 60, artifactScore |-> 80,
            imageQuality |-> 40]
      [] variant = "conservative" ->
           [compressionArtifacts |-> 90, edgeConsistency |-> 30, artifactScore |-> 92,
            colorConsistency |-> 40, frequencyAnalysis |-> 90]

\* C20: for every tiered signal rule, a signal beyond the more extreme threshold
\* earns a strictly larger bonus than one beyond the first threshold only: the
\* confidence with the extreme value is above the confidence with the first-tier
\* value, unless the clamp hides the difference.
ExtremeTierEarnsMore ==
    (score.called /\ score.kind = "image") =>
        \A field \in DOMAIN FirstTierOnly(score.variant) :
            (/\ score.sig[field] = DamagedFrame[field]
             /\ RGt(score.result.confidence, Num(0))
             /\ RLt(ConfidenceUnderSignal(field, FirstTierOnly(score.variant)[field]),
                    Num(100)))
            => RGt(score.result.confidence,
                   ConfidenceUnderSignal(field, FirstTierOnly(score.variant)[field]))

\* C28: in every DetectionResult of detectDeepfake a threatLevel above 'low'
\* comes with isDeepfake true: no result is rated medium, high or critical
\* while classified authentic, in each variant.
RatedThreatsAreDeepfakes ==
    score.called =>
        (score.result.threatLevel # "low" => score.result.isDeepfake)

---------------------------------------------------------------------------
(* calculateThreatLevel applied to pairs of inputs (specification          *)
(* SpecThreat).  The inputs are the rungs of the three ladders and the     *)
(* values one step above each rung.                                        *)

\* the grid holds t and t + 1/ThreatGridDen for every rung t
ThreatGridDen == 2

ConfidenceRungs == {0, 50, 60, 65, 70, 75, 80, 85, 90, 95, 100}

ArtifactRungs == {0, 50, 60, 70, 80, 85, 90, 100}

GridOver(rungs) ==
    {Num(t) : t \in rungs}
        \cup {RAdd(Num(t), Frac(1, ThreatGridDen)) : t \in rungs \ {100}}

ThreatInit ==
    /\ threat = Idle /\ score = Idle
    /\ extract = Idle /\ sampler = Idle /\ loader = Idle /\ app = Idle /\ tasks = Idle

\* two calls of calculateThreatLevel(confidence, analysis) on one detector
ThreatClassify ==
    /\ ~threat.called
    /\ \E v \in Variants :
        \E c1 \in GridOver(ConfidenceRungs), c2 \in GridOver(ConfidenceRungs) :
          \E a1 \in GridOver(ArtifactRungs), a2 \in GridOver(ArtifactRungs) :
            threat' = [called |-> TRUE, variant |-> v,
                       confidence1 |-> c1, artifact1 |-> a1,
                       level1 |-> calculateThreatLevel(v, c1, [artifactDetection |-> a1]),
                       confidence2 |-> c2, artifact2 |-> a2,
                       level2 |-> calculateThreatLevel(v, c2, [artifactDetection |-> a2])]
    /\ UNCHANGED <<score, extract, sampler, loader, app, tasks>>

ThreatNext == ThreatClassify

SpecThreat == ThreatInit /\ [][ThreatNext]_vars

\* C2: calculateThreatLevel is monotonic under low < medium < high < critical:
\* when confidence1 <= confidence2 and artifact1 <= artifact2, the level of the
\* first input is not above the level of the second, in each variant's ladder.
ThreatLevelMonotonic ==
    threat.called =>
        ((RLe(threat.confidence1, threat.confidence2)
          /\ RLe(threat.artifact1, threat.artifact2))
            => Rank(threat.level1) <= Rank(threat.level2))

\* confidence raised with artifactDetection held fixed, and the level rose
ThreatLevelMonotonicWitness ==
    /\ threat.called
    /\ threat.variant = "default"
    /\ threat.artifact1 = threat.artifact2
    /\ RLt(threat.confidence1, threat.confidence2)
    /\ threat.level1 = "medium"
    /\ threat.level2 = "critical"

\* the levels of the rules of a variant's ladder whose condition holds for
\* (c, a), the rules taken one by one, in no order
LevelsOfRulesHolding(variant, c, a) ==
    LET rule(cond, level) == IF cond THEN {level} ELSE {}
    IN CASE variant = "default" ->
              rule(Gt(c, 90) /\ Gt(a, 80), "critical")
                \cup rule(Gt(c, 85) \/ (Gt(c, 75) /\ Gt(a, 70)), "critical")
                \cup rule(Gt(c, 75) \/ (Gt(c, 65) /\ Gt(a, 60)), "high")
                \cup rule(Gt(c, 60) \/ (Gt(c, 50) /\ Gt(a, 50)), "medium")
         [] variant = "conservative" ->
              rule(Gt(c, 95) /\ Gt(a, 90), "critical")
                \cup rule(Gt(c, 90) /\ Gt(a, 85), "critical")
                \cup rule(Gt(c, 85) /\ Gt(a, 80), "high")
                \cup rule(Gt(c, 80), "high")
                \cup rule(Gt(c, 75), "medium")
         [] variant = "aggressive" ->
              rule(Gt(c, 85) /\ Gt(a, 70), "critical")
                \cup rule(Gt(c, 70), "high")
                \cup rule(Gt(c, 50), "medium")

\* C22: calculateThreatLevel returns the most severe level among the rules
\* whose condition holds and 'low' exactly when none holds; in the default
\* variant a confidence above 85 gives 'critical' and one of at most 50 gives
\* 'low', whatever artifactDetection is.
MostSevereRuleWins ==
    threat.called =>
        LET holding == LevelsOfRulesHolding(threat.variant, threat.confidence1,
                                            threat.artifact1)
        IN /\ (holding = {}) <=> (threat.level1 = "low")
           /\ holding # {} =>
                /\ threat.level1 \in holding
                /\ \A l \in holding : Rank(l) <= Rank(threat.level1)
           /\ threat.variant = "default" =>
                /\ (Gt(threat.confidence1, 85) => threat.level1 = "critical")
                /\ (RLe(threat.confidence1, Num(50)) => threat.level1 = "low")

\* the conservative ladder on an input for which rules of 'high' and the rule
\* of 'medium' hold and no rule of 'critical': the result is 'high'
MostSevereRuleWinsWitness ==
    /\ threat.called
    /\ threat.variant = "conservative"
    /\ LevelsOfRulesHolding("conservative", threat.confidence1, threat.artifact1)
           = {"high", "medium"}
    /\ Gt(threat.artifact1, 80)
    /\ threat.level1 = "high"

---------------------------------------------------------------------------
(* Pixel buffers.  An image element is [width, height, data]: data is the  *)
(* Uint8ClampedArray that getImageData(0, 0, width, height) returns,       *)
(* data[4 * (y * width + x) + c] being channel c (R, G, B, A) of the pixel *)
(* (x, y).  ctx is FALSE when canvas.getContext('2d') returned null; u is  *)
(* the Math.random() value the extractor then draws.                       *)

\* f[lo] + ... + f[hi] of integers, and of numbers; the range is halved at each
\* step to keep the evaluation shallow (exact sums do not depend on the order)
RECURSIVE SumRange(_, _, _)
SumRange(f, lo, hi) ==
    IF lo > hi THEN 0
    ELSE IF lo = hi THEN f[lo]
    ELSE LET mid == (lo + hi) \div 2
         IN SumRange(f, lo, mid) + SumRange(f, mid + 1, hi)

RECURSIVE RSumRange(_, _, _)
RSumRange(f, lo, hi) ==
    IF lo > hi THEN Num(0)
    ELSE IF lo = hi THEN f[lo]
    ELSE LET mid == (lo + hi) \div 2
         IN RAdd(RSumRange(f, lo, mid), RSumRange(f, mid + 1, hi))

\* Math.floor
Floor(a) == a.n \div a.d

\* data.length
DataLength(imageElement) == 4 * imageElement.width * imageElement.height

\* 0.299 * data[i] + 0.587 * data[i + 1] + 0.114 * data[i + 2]
Luma(data, i) == Frac(299 * data[i] + 587 * data[i + 1] + 114 * data[i + 2], 1000)

\* base + Math.random() * spread, the value an extractor returns without a context
NoContext(base, spread, u) == RAdd(Num(base), RMul(u, Num(spread)))

\* ImageProcessor.calculateImageQuality
calculateImageQuality(imageElement, ctx) ==
    IF ~ctx THEN Num(0)
    ELSE LET data == imageElement.data
             count == DataLength(imageElement) \div 4
             gray == [p \in 0..(count - 1) |-> Luma(data, 4 * p)]
             sum == RSumRange(gray, 0, count - 1)
             sumSquared == RSumRange([p \in 0..(count - 1) |-> RMul(gray[p], gray[p])],
                                     0, count - 1)
             mean == RDiv(sum, Num(count))
             variance == RSub(RDiv(sumSquared, Num(count)), RMul(mean, mean))
         IN MathMin(Num(100), RDiv(variance, Num(10)))

\* the 8x8 blocks that detectCompressionArtifacts visits: their top-left corners
BlockCorners(width, height, blockSize) ==
    {c \in (0..(width - 1)) \X (0..(height - 1)) :
        /\ c[1] % blockSize = 0 /\ c[1] < width - blockSize
        /\ c[2] % blockSize = 0 /\ c[2] < height - blockSize}

\* (data[i] + data[i + 1] + data[i + 2]) / 3
ChannelMean(data, i) == Frac(data[i] + data[i + 1] + data[i + 2], 3)

\* blockiness of the default and the conservative detector: the block boundaries
\* whose channel mean differs from the block corner's by more than the threshold
Blockiness(imageElement, blockSize, threshold) ==
    LET data == imageElement.data
        width == imageElement.width
        length == DataLength(imageElement)
        blocks == BlockCorners(width, imageElement.height, blockSize)
        rightEdgeIdx(c) == (c[2] * width + (c[1] + blockSize)) * 4
        bottomEdgeIdx(c) == ((c[2] + blockSize) * width + c[1]) * 4
        currentIdx(c) == (c[2] * width + c[1]) * 4
        InData(c) == rightEdgeIdx(c) < length /\ bottomEdgeIdx(c) < length
        Jump(c, idx) == Gt(RAbs(RSub(ChannelMean(data, idx),
                                     ChannelMean(data, currentIdx(c)))), threshold)
    IN Cardinality({c \in blocks : InData(c) /\ Jump(c, rightEdgeIdx(c))})
       + Cardinality({c \in blocks : InData(c) /\ Jump(c, bottomEdgeIdx(c))})

detectCompressionArtifactsDefault(imageElement, ctx, u) ==
    LET totalBlocks == Cardinality(BlockCorners(imageElement.width, imageElement.height, 8))
    IN IF ~ctx THEN NoContext(40, 30, u)
       ELSE MathMin(Num(100), RMul(RDiv(Num(Blockiness(imageElement, 8, 25)),
                                        Num(totalBlocks * 2)), Num(100)))

detectCompressionArtifactsConservative(imageElement, ctx, u) ==
    LET totalBlocks == Cardinality(BlockCorners(imageElement.width, imageElement.height, 8))
    IN IF ~ctx THEN NoContext(35, 25, u)
       ELSE MathMin(Num(100), RMul(RDiv(Num(Blockiness(imageElement, 8, 40)),
                                        Num(totalBlocks * 2)), Num(80)))

\* the aggressive detector compares the red channel and divides by the block area
detectCompressionArtifactsAggressive(imageElement, ctx, u) ==
    LET data == imageElement.data
        width == imageElement.width
        height == imageElement.height
        blockSize == 8
        blocks == BlockCorners(width, height, blockSize)
        rightEdge(c) == data[(c[2] * width + (c[1] + blockSize)) * 4]
        bottomEdge(c) == data[((c[2] + blockSize) * width + c[1]) * 4]
        current(c) == data[(c[2] * width + c[1]) * 4]
        blockiness == Cardinality({c \in blocks : Abs(rightEdge(c) - current(c)) > 30})
                      + Cardinality({c \in blocks : Abs(bottomEdge(c) - current(c)) > 30})
    IN IF ~ctx THEN NoContext(0, 100, u)
       ELSE MathMin(Num(100),
                    RMul(RDiv(Num(blockiness),
                              RMul(Frac(width, blockSize), Frac(height, blockSize))),
                         Num(50)))

---------------------------------------------------------------------------
(* performFaceAnalysis and isSkinTone                                      *)

Max3(r, g, b) == IF r >= g /\ r >= b THEN r ELSE IF g >= b THEN g ELSE b
Min3(r, g, b) == IF r <= g /\ r <= b THEN r ELSE IF g <= b THEN g ELSE b

\* a % k of JavaScript for a finite a and a positive integer k: the sign of a
RRem(a, k) ==
    LET q == IF a.n >= 0 THEN a.n \div (a.d * k) ELSE -((-a.n) \div (a.d * k))
    IN RSub(a, Num(k * q))

\* Algorithm 1 of isSkinTone, the whole test of the aggressive detector
SkinRGB(r, g, b) ==
    /\ r > 95 /\ g > 40 /\ b > 20
    /\ Max3(r, g, b) - Min3(r, g, b) > 15
    /\ Abs(r - g) > 15 /\ r > g /\ r > b

\* Algorithm 2 of isSkinTone
SkinYCbCr(r, g, b) ==
    LET cb == Frac(-169 * r - 331 * g + 500 * b + 128000, 1000)
        cr == Frac(500 * r - 419 * g - 81 * b + 128000, 1000)
    IN RGe(cb, Num(77)) /\ RLe(cb, Num(127)) /\ RGe(cr, Num(133)) /\ RLe(cr, Num(173))

\* Algorithm 3 of isSkinTone (default detector only)
SkinHSV(r, g, b) ==
    LET max == Max3(r, g, b)
        min == Min3(r, g, b)
        delta == max - min
        v == Frac(max, 255)
        s == IF max = 0 THEN Num(0) ELSE Frac(delta, max)
        h0 == IF delta # 0
              THEN (IF max = r THEN RRem(Frac(g - b, delta), 6)
                    ELSE IF max = g THEN RAdd(Frac(b - r, delta), Num(2))
                    ELSE RAdd(Frac(r - g, delta), Num(4)))
              ELSE Num(0)
        h60 == RMul(h0, Num(60))
        h == IF Lt(h60, 0) THEN RAdd(h60, Num(360)) ELSE h60
    IN /\ RGe(h, Num(0)) /\ RLe(h, Num(50))
       /\ RGe(s, Frac(23, 100)) /\ RLe(s, Frac(68, 100))
       /\ RGe(v, Frac(35, 100)) /\ RLe(v, Frac(95, 100))

isSkinToneDefault(r, g, b) == SkinRGB(r, g, b) \/ SkinYCbCr(r, g, b) \/ SkinHSV(r, g, b)

isSkinToneConservative(r, g, b) == SkinRGB(r, g, b) \/ SkinYCbCr(r, g, b)

\* the pixels (x, y) with distFromCenter < faceRegionRadius; Math.sqrt(s) < r is
\* compared as s < r * r
FaceRegion(width, height) ==
    LET centerX == Frac(width, 2)
        centerY == Frac(height, 2)
        faceRegionRadius == Frac(IF width < height THEN width ELSE height, 4)
        Sq(a) == RMul(a, a)
    IN {c \in (0..(width - 1)) \X (0..(height - 1)) :
           RLt(RAdd(Sq(RSub(Num(c[1]), centerX)), Sq(RSub(Num(c[2]), centerY))),
               Sq(faceRegionRadius))}

\* skinPixels and faceRegionPixels of the default and conservative detectors
SkinPixels(imageElement, variant) ==
    LET data == imageElement.data
        width == imageElement.width
    IN Cardinality({c \in FaceRegion(width, imageElement.height) :
                       LET i == (c[2] * width + c[1]) * 4
                       IN IF variant = "default"
                          THEN isSkinToneDefault(data[i], data[i + 1], data[i + 2])
                          ELSE isSkinToneConservative(data[i], data[i + 1], data[i + 2])})

performFaceAnalysisDefault(imageElement, ctx, u) ==
    LET faceRegionPixels == Cardinality(FaceRegion(imageElement.width, imageElement.height))
        skinPixels == SkinPixels(imageElement, "default")
        skinRatio == IF faceRegionPixels > 0 THEN Frac(skinPixels, faceRegionPixels)
                     ELSE Num(0)
    IN IF ~ctx THEN NoContext(50, 30, u)
       ELSE MathMin(Num(100), RMul(skinRatio, Num(200)))

performFaceAnalysisConservative(imageElement, ctx, u) ==
    LET faceRegionPixels == Cardinality(FaceRegion(imageElement.width, imageElement.height))
        skinPixels == SkinPixels(imageElement, "conservative")
        skinRatio == IF faceRegionPixels > 0 THEN Frac(skinPixels, faceRegionPixels)
                     ELSE Num(0)
    IN IF ~ctx THEN NoContext(65, 20, u)
       ELSE MathMin(Num(100), MathMax(Num(30), RAdd(RMul(skinRatio, Num(150)), Num(20))))

\* the aggressive detector tests every pixel of the buffer
performFaceAnalysisAggressive(imageElement, ctx, u) ==
    LET data == imageElement.data
        totalPixels == DataLength(imageElement) \div 4
        skinPixels == Cardinality({p \in 0..(totalPixels - 1) :
                          SkinRGB(data[4 * p], data[4 * p + 1], data[4 * p + 2])})
        skinRatio == RDiv(Num(skinPixels), Num(totalPixels))
    IN IF ~ctx THEN NoContext(0, 100, u)
       ELSE MathMin(Num(100), RMul(skinRatio, Num(500)))

---------------------------------------------------------------------------
(* detectArtifacts.  artifactScore is counted in twentieths (0.2 = 4/20,   *)
(* 0.15 = 3/20, 0.1 = 2/20, 0.05 = 1/20).                                  *)

\* the byte index of neighbour j (dy outer, dx inner, both from -k to k) of (x, y)
NeighbourIdx(width, x, y, k, j) ==
    LET side == 2 * k + 1
        dy == (j \div side) - k
        dx == (j % side) - k
    IN ((y + dy) * width + (x + dx)) * 4

\* The (2k+1) x (2k+1) neighbourhood of (x, y): its size, the channel sums (avgR =
\* sumR / count, ...) and squares = count^2 * sum of (n.r - avgR)^2 + (n.g - avgG)^2
\* + (n.b - avgB)^2, so that variance = squares / count^3.  The comparisons below
\* are made on these integers, multiplied through by the denominators.
Neighbourhood(data, width, x, y, k) ==
    LET count == (2 * k + 1) * (2 * k + 1)
        nIdx == [j \in 0..(count - 1) |-> NeighbourIdx(width, x, y, k, j)]
        r == [j \in 0..(count - 1) |-> data[nIdx[j]]]
        g == [j \in 0..(count - 1) |-> data[nIdx[j] + 1]]
        b == [j \in 0..(count - 1) |-> data[nIdx[j] + 2]]
        sumR == SumRange(r, 0, count - 1)
        sumG == SumRange(g, 0, count - 1)
        sumB == SumRange(b, 0, count - 1)
        Sq(v) == v * v
        squares == SumRange([j \in 0..(count - 1) |->
                                Sq(count * r[j] - sumR) + Sq(count * g[j] - sumG)
                                + Sq(count * b[j] - sumB)], 0, count - 1)
    IN [count |-> count, sumR |-> sumR, sumG |-> sumG, sumB |-> sumB, squares |-> squares]

\* variance > limit
VarianceAbove(n, limit) == n.squares > limit * n.count * n.count * n.count

\* count * Math.abs(v - avg) for avg = sum / count
Off(v, sum, count) == Abs(count * v - sum)

detectArtifactsDefault(imageElement, ctx, u) ==
    LET data == imageElement.data
        width == imageElement.width
        height == imageElement.height
        Increment(c) ==
            LET x == c[1]
                y == c[2]
                idx == (y * width + x) * 4
                n == Neighbourhood(data, width, x, y, 2)
                dr == Off(data[idx], n.sumR, n.count)
                dg == Off(data[idx + 1], n.sumG, n.count)
                db == Off(data[idx + 2], n.sumB, n.count)
            IN (IF VarianceAbove(n, 2000) THEN 4 ELSE 0)
               + (IF dr > 80 * n.count \/ dg > 80 * n.count \/ db > 80 * n.count
                  THEN 2 ELSE 0)
               + (IF (x % 8 = 0 \/ y % 8 = 0) /\ dr + dg + db > 100 * n.count
                  THEN 3 ELSE 0)
        artifactScore == Frac(SumRange([y \in 2..(height - 3) |->
                                  SumRange([x \in 2..(width - 3) |-> Increment(<<x, y>>)],
                                           2, width - 3)], 2, height - 3), 20)
    IN IF ~ctx THEN NoContext(30, 40, u)
       ELSE MathMin(Num(100), RMul(RDiv(artifactScore, Num(width * height)), Num(50000)))

detectArtifactsConservative(imageElement, ctx, u) ==
    LET data == imageElement.data
        width == imageElement.width
        height == imageElement.height
        Increment(c) ==
            LET x == c[1]
                y == c[2]
                idx == (y * width + x) * 4
                n == Neighbourhood(data, width, x, y, 1)
            IN (IF VarianceAbove(n, 4000) THEN 2 ELSE 0)
               + (IF \/ Off(data[idx], n.sumR, n.count) > 120 * n.count
                     \/ Off(data[idx + 1], n.sumG, n.count) > 120 * n.count
                     \/ Off(data[idx + 2], n.sumB, n.count) > 120 * n.count
                  THEN 1 ELSE 0)
        artifactScore == Frac(SumRange([y \in 2..(height - 3) |->
                                  SumRange([x \in 2..(width - 3) |-> Increment(<<x, y>>)],
                                           2, width - 3)], 2, height - 3), 20)
    IN IF ~ctx THEN NoContext(25, 30, u)
       ELSE MathMin(Num(100), RMul(RDiv(artifactScore, Num(width * height)), Num(80000)))

\* the aggressive detector: variance of the red channel of the four neighbours
detectArtifactsAggressive(imageElement, ctx, u) ==
    LET data == imageElement.data
        width == imageElement.width
        height == imageElement.height
        Increment(c) ==
            LET x == c[1]
                y == c[2]
                idx == (y * width + x) * 4
                r == data[idx]
                g == data[idx + 1]
                b == data[idx + 2]
                neighbors == <<data[((y - 1) * width + x) * 4],
                               data[((y + 1) * width + x) * 4],
                               data[(y * width + (x - 1)) * 4],
                               data[(y * width + (x + 1)) * 4]>>
                sum == SumRange(neighbors, 1, 4)
                \* (val - avgNeighbor)^2 = (4 * val - sum)^2 / 16
                squares == SumRange([j \in 1..4 |->
                               (4 * neighbors[j] - sum) * (4 * neighbors[j] - sum)], 1, 4)
            IN (IF squares > 1000 * 16 * 4 THEN 2 ELSE 0)
               + (IF Abs(r - g) > 100 \/ Abs(g - b) > 100 \/ Abs(r - b) > 100
                  THEN 1 ELSE 0)
        artifactScore == Frac(SumRange([y \in 1..(height - 2) |->
                                  SumRange([x \in 1..(width - 2) |-> Increment(<<x, y>>)],
                                           1, width - 2)], 1, height - 2), 20)
    IN IF ~ctx THEN NoContext(0, 100, u)
       ELSE MathMin(Num(100), RMul(RDiv(artifactScore, Num(width * height)), Num(10000)))

---------------------------------------------------------------------------
(* analyzeColorConsistency and performFrequencyAnalysis                    *)

\* a mutant of HalfSteps: the half is rounded down
HalfStepsFloor(size) == size \div 2

\* the number of iterations of "for (v = start; v < start + size / 2; v++)"
HalfSteps(size) == Cardinality({k \in 0..size : 2 * k < size})

\* the r, g, b means of the region that starts at (x0, y0), a quarter of the canvas;
\* pixel k of a row is read at Math.floor(x0 + k)
RegionStats(imageElement, x0, y0) ==
    LET data == imageElement.data
        width == imageElement.width
        nx == HalfSteps(width)
        ny == HalfSteps(imageElement.height)
        idx(kx, ky) == (Floor(RAdd(y0, Num(ky))) * width + Floor(RAdd(x0, Num(kx)))) * 4
        Total(ch) == SumRange([ky \in 0..(ny - 1) |->
                         SumRange([kx \in 0..(nx - 1) |-> data[idx(kx, ky) + ch]], 0, nx - 1)],
                              0, ny - 1)
        count == nx * ny
    IN [r |-> RDiv(Num(Total(0)), Num(count)),
        g |-> RDiv(Num(Total(1)), Num(count)),
        b |-> RDiv(Num(Total(2)), Num(count))]

\* avgDifference: the mean over the 6 pairs of regions of |dr| + |dg| + |db|
RegionDifference(imageElement) ==
    LET halfW == Frac(imageElement.width, 2)
        halfH == Frac(imageElement.height, 2)
        regionStats == <<RegionStats(imageElement, Num(0), Num(0)),
                         RegionStats(imageElement, halfW, Num(0)),
                         RegionStats(imageElement, Num(0), halfH),
                         RegionStats(imageElement, halfW, halfH)>>
        diff(i, j) == RAdd(RAbs(RSub(regionStats[i].r, regionStats[j].r)),
                           RAdd(RAbs(RSub(regionStats[i].g, regionStats[j].g)),
                                RAbs(RSub(regionStats[i].b, regionStats[j].b))))
        pairs == <<<<1, 2>>, <<1, 3>>, <<1, 4>>, <<2, 3>>, <<2, 4>>, <<3, 4>>>>
        totalDifference == RSumRange([p \in 1..6 |-> diff(pairs[p][1], pairs[p][2])], 1, 6)
    IN RDiv(totalDifference, Num(6))

analyzeColorConsistencyDefault(imageElement, ctx, u) ==
    IF ~ctx THEN NoContext(60, 30, u)
    ELSE MathMax(Num(0), RSub(Num(100), RDiv(RegionDifference(imageElement), Num(10))))

analyzeColorConsistencyConservative(imageElement, ctx, u) ==
    IF ~ctx THEN NoContext(75, 15, u)
    ELSE MathMax(Num(20), RSub(Num(100), RDiv(RegionDifference(imageElement), Num(15))))

\* the variance of the 256-bin histogram of Math.floor(luma).  drawImage scales an
\* image larger than 256 x 256 down to the canvas; the buffers modelled here are
\* smaller, so the canvas holds the image itself.
HistogramVariance(imageElement) ==
    LET data == imageElement.data
        total == DataLength(imageElement) \div 4
        gray == [p \in 0..(total - 1) |-> Floor(Luma(data, 4 * p))]
        present == {gray[p] : p \in 0..(total - 1)}
        \* histogram[gray]++ for every pixel: a bin no pixel falls into stays 0
        histogram == [bin \in 0..255 |->
                         IF bin \in present
                         THEN Cardinality({p \in 0..(total - 1) : gray[p] = bin})
                         ELSE 0]
        mean == Frac(total, 256)
        Sq(a) == RMul(a, a)
        squares == [bin \in 0..255 |-> Sq(RSub(Num(histogram[bin]), mean))]
    IN RDiv(RSumRange(squares, 0, 255), Num(256))

performFrequencyAnalysisDefault(imageElement, ctx, u) ==
    IF ~ctx THEN NoContext(40, 30, u)
    ELSE MathMin(Num(100), RDiv(HistogramVariance(imageElement), Num(1000)))

performFrequencyAnalysisConservative(imageElement, ctx, u) ==
    IF ~ctx THEN NoContext(30, 25, u)
    ELSE MathMin(Num(100), RDiv(HistogramVariance(imageElement), Num(2000)))

---------------------------------------------------------------------------
(* analyzeEdgeConsistency.  Math.sqrt(s) > t is compared as s > t * t.     *)

\* sobelX and sobelY from the array pixels[0..8] of a 3x3 neighbourhood, filled
\* with dy outer and dx inner: pixels[3 * (dy + 1) + (dx + 1)]
SobelX(pixels) ==
    (-1 * pixels[0]) + (1 * pixels[2]) + (-2 * pixels[3]) + (2 * pixels[5])
    + (-1 * pixels[6]) + (1 * pixels[8])

SobelY(pixels) ==
    (-1 * pixels[0]) + (-2 * pixels[1]) + (-1 * pixels[2])
    + (1 * pixels[6]) + (2 * pixels[7]) + (1 * pixels[8])

\* 1000 * (0.299 * R + 0.587 * G + 0.114 * B), an integer
Luma1000(data, i) == 299 * data[i] + 587 * data[i + 1] + 114 * data[i + 2]

\* Math.max(0, Math.min(hi, v))
ClampIndex(v, hi) == IF v < 0 THEN 0 ELSE IF v > hi THEN hi ELSE v

\* the Sobel gradient [x, y] of the luma at (x, y), coordinates clamped to the canvas
\* as in the neighbour loop (the clamp changes nothing for an interior pixel)
LumaGradient(imageElement, x, y) ==
    LET data == imageElement.data
        width == imageElement.width
        nPixels == [j \in 0..8 |->
                       LET npy == ClampIndex(y + (j \div 3) - 1, imageElement.height - 1)
                           npx == ClampIndex(x + (j % 3) - 1, width - 1)
                       IN Luma1000(data, (npy * width + npx) * 4)]
    IN [x |-> Frac(SobelX(nPixels), 1000), y |-> Frac(SobelY(nPixels), 1000)]

\* a mutant of Steeper: every pixel counts as an edge
SteeperAlways(grad, threshold) == TRUE

\* magnitude > threshold
Steeper(grad, threshold) ==
    RGt(RAdd(RMul(grad.x, grad.x), RMul(grad.y, grad.y)), Num(threshold * threshold))

\* angleDiff < Math.PI / 4 || angleDiff > 7 * Math.PI / 4 for the atan2 angles of two
\* non-zero gradients a and b: b lies strictly inside the cone of 45 degrees on
\* either side of a, decided by the cross products with a turned by -45 and +45
WithinEighthTurn(a, b) ==
    LET Cross(p, q) == RSub(RMul(p.x, q.y), RMul(p.y, q.x))
        lower == [x |-> RAdd(a.x, a.y), y |-> RSub(a.y, a.x)]
        upper == [x |-> RSub(a.x, a.y), y |-> RAdd(a.x, a.y)]
    IN Gt(Cross(lower, b), 0) /\ Gt(Cross(b, upper), 0)

analyzeEdgeConsistencyDefault(imageElement, ctx, u) ==
    LET width == imageElement.width
        height == imageElement.height
        interior == (1..(width - 2)) \X (1..(height - 2))
        edges == {c \in interior : Steeper(LumaGradient(imageElement, c[1], c[2]), 30)}
        \* nx from Math.max(0, x - 1) to Math.min(width - 1, x + 1), ny likewise
        Neighbours(c) ==
            {n \in (ClampIndex(c[1] - 1, width - 1)..ClampIndex(c[1] + 1, width - 1))
                   \X (ClampIndex(c[2] - 1, height - 1)..ClampIndex(c[2] + 1, height - 1)) :
                /\ n # c
                /\ Steeper(LumaGradient(imageElement, n[1], n[2]), 30)}
        Consistent(c) ==
            LET grad == LumaGradient(imageElement, c[1], c[2])
                neighborCount == Cardinality(Neighbours(c))
                neighborConsistency ==
                    Cardinality({n \in Neighbours(c) :
                        WithinEighthTurn(grad, LumaGradient(imageElement, n[1], n[2]))})
            IN neighborCount > 0
               /\ RGt(Frac(neighborConsistency, neighborCount), Frac(1, 2))
        totalEdges == Cardinality(edges)
        consistentEdges == Cardinality({c \in edges : Consistent(c)})
    IN IF ~ctx THEN NoContext(70, 20, u)
       ELSE IF totalEdges > 0 THEN RMul(Frac(consistentEdges, totalEdges), Num(100))
       ELSE Num(75)

analyzeEdgeConsistencyConservative(imageElement, ctx, u) ==
    LET width == imageElement.width
        height == imageElement.height
        interior == (1..(width - 2)) \X (1..(height - 2))
        totalEdges == Cardinality({c \in interior :
                          Steeper(LumaGradient(imageElement, c[1], c[2]), 50)})
        consistentEdges == totalEdges
    IN IF ~ctx THEN NoContext(80, 15, u)
       ELSE IF totalEdges > 0
       THEN MathMin(Num(100), RAdd(RMul(Frac(consistentEdges, totalEdges), Num(100)),
                                   Num(10)))
       ELSE Num(85)

\* the aggressive detector takes the gradient of the red channel, and calls an edge
\* consistent when Math.abs(angle) < PI / 4 or > 3 * PI / 4 for angle =
\* atan2(sobelY, sobelX), which is |sobelY| < |sobelX|
analyzeEdgeConsistencyAggressive(imageElement, ctx, u) ==
    LET data == imageElement.data
        width == imageElement.width
        height == imageElement.height
        interior == (1..(width - 2)) \X (1..(height - 2))
        pixels(c) == [j \in 0..8 |->
                         data[((c[2] + (j \div 3) - 1) * width + (c[1] + (j % 3) - 1)) * 4]]
        sobelX(c) == SobelX(pixels(c))
        sobelY(c) == SobelY(pixels(c))
        edges == {c \in interior : sobelX(c) * sobelX(c) + sobelY(c) * sobelY(c) > 50 * 50}
        totalEdges == Cardinality(edges)
        consistentEdges == Cardinality({c \in edges : Abs(sobelY(c)) < Abs(sobelX(c))})
    IN IF ~ctx THEN NoContext(0, 100, u)
       ELSE IF totalEdges > 0 THEN RMul(Frac(consistentEdges, totalEdges), Num(100))
       ELSE Num(50)

---------------------------------------------------------------------------
(* The extractor calls of analyzeImage, in the order of the source.  e[k]  *)
(* is the Math.random() value of the k-th extractor that draws one.        *)

ExtractSignalsDefault(img, ctx, e) ==
    [faceDetectionScore   |-> performFaceAnalysisDefault(img, ctx, e[1]),
     artifactScore        |-> detectArtifactsDefault(img, ctx, e[2]),
     imageQuality         |-> calculateImageQuality(img, ctx),
     compressionArtifacts |-> detectCompressionArtifactsDefault(img, ctx, e[3]),
     edgeConsistency      |-> analyzeEdgeConsistencyDefault(img, ctx, e[4]),
     colorConsistency     |-> analyzeColorConsistencyDefault(img, ctx, e[5]),
     frequencyAnalysis    |-> performFrequencyAnalysisDefault(img, ctx, e[6])]

ExtractSignalsConservative(img, ctx, e) ==
    [faceDetectionScore   |-> performFaceAnalysisConservative(img, ctx, e[1]),
     artifactScore        |-> detectArtifactsConservative(img, ctx, e[2]),
     imageQuality         |-> calculateImageQuality(img, ctx),
     compressionArtifacts |-> detectCompressionArtifactsConservative(img, ctx, e[3]),
     edgeConsistency      |-> analyzeEdgeConsistencyConservative(img, ctx, e[4]),
     colorConsistency     |-> analyzeColorConsistencyConservative(img, ctx, e[5]),
     frequencyAnalysis    |-> performFrequencyAnalysisConservative(img, ctx, e[6])]

\* the aggressive analyzeImage has no colour and no frequency extractor
ExtractSignalsAggressive(img, ctx, e) ==
    [faceDetectionScore   |-> performFaceAnalysisAggressive(img, ctx, e[1]),
     artifactScore        |-> detectArtifactsAggressive(img, ctx, e[2]),
     imageQuality         |-> calculateImageQuality(img, ctx),
     compressionArtifacts |-> detectCompressionArtifactsAggressive(img, ctx, e[3]),
     edgeConsistency      |-> analyzeEdgeConsistencyAggressive(img, ctx, e[4])]

ExtractSignals(variant, img, ctx, e) ==
    CASE variant = "aggressive" -> ExtractSignalsAggressive(img, ctx, e)
      [] variant = "default" -> ExtractSignalsDefault(img, ctx, e)
      [] variant = "conservative" -> ExtractSignalsConservative(img, ctx, e)

---------------------------------------------------------------------------
(* Pixel buffers of the extractor runs                                     *)

\* colours whose luma 0.299 R + 0.587 G + 0.114 B is a whole number
Colours == [gray |-> <<128, 128, 128>>, black |-> <<0, 0, 0>>, white |-> <<255, 255, 255>>,
            skin |-> <<200, 170, 65>>, blue |-> <<0, 40, 180>>,
            grayish |-> <<132, 132, 132>>]

Patterns == {"gray", "skin", "corner", "split", "checker", "diagonal", "faint"}

\* the colour of pixel (x, y) of a buffer: one colour throughout ("gray", "skin"),
\* a first pixel unlike the rest, a left and a right half, a chessboard, a
\* diagonal boundary, two halves of nearly the same gray ("faint")
PatternColour(pattern, x, y, width) ==
    CASE pattern = "gray" -> Colours.gray
      [] pattern = "skin" -> Colours.skin
      [] pattern = "corner" -> (IF x = 0 /\ y = 0 THEN Colours.white ELSE Colours.black)
      [] pattern = "split" -> (IF 2 * x < width THEN Colours.white ELSE Colours.blue)
      [] pattern = "checker" -> (IF (x + y) % 2 = 0 THEN Colours.black ELSE Colours.white)
      [] pattern = "diagonal" -> (IF x + y < width THEN Colours.skin ELSE Colours.black)
      [] pattern = "faint" -> (IF 2 * x < width THEN Colours.gray ELSE Colours.grayish)

\* the image element of that pattern, every pixel with alpha 255
Buffer(pattern, width, height) ==
    [width |-> width, height |-> height,
     data |-> [i \in 0..(4 * width * height - 1) |->
                  LET p == i \div 4
                  IN IF i % 4 = 3 THEN 255
                     ELSE PatternColour(pattern, p % width, p \div width, width)[(i % 4) + 1]]]

---------------------------------------------------------------------------
(* SpecExtract: analyzeImage on a pixel buffer, from the extractors to the *)
(* DeepfakeDetectionResult.                                                *)

\* the largest side of the small buffers
MaxSide == 9

\* sides on both sides of blockSize = 8, of the 5x5 and 3x3 neighbourhoods, and odd
\* and even for the four regions of analyzeColorConsistency
Sides == {1, 2, 5, 8, MaxSide}

\* the small buffers in every pattern, and the 64x64 uniform gray image
BufferShapes ==
    (Patterns \X Sides \X Sides) \cup {<<"gray", 64, 64>>}

\* the Math.random() values of the extractors: drawn only without a context
ExtractorDraws(ctx) ==
    IF ctx THEN {[k \in 1..6 |-> Num(0)]}
    ELSE {[k \in 1..6 |-> d] : d \in RandomDraws}

ExtractInit ==
    /\ \E v \in Variants : extract = [stage |-> "start", variant |-> v]
    /\ threat = Idle /\ score = Idle
    /\ sampler = Idle /\ loader = Idle /\ app = Idle /\ tasks = Idle

\* analyzeImage(file) for a file that decodes to the buffer img, up to the last
\* await: loadImage and the extractor calls
AnalyzeImageExtract ==
    /\ extract.stage = "start"
    /\ \E shape \in BufferShapes, ctx \in BOOLEAN :
         \E e \in ExtractorDraws(ctx),
            name \in (IF shape[2] = 64 THEN {NAME.photo} ELSE {NAME.photo, NAME.DeepFake}) :
           LET v == extract.variant
               img == Buffer(shape[1], shape[2], shape[3])
           IN extract' = [stage |-> "extracted", variant |-> v,
                          file |-> [name |-> name, type |-> STR.image, size |-> 50 * 1024],
                          img |-> img, ctx |-> ctx,
                          sig |-> ExtractSignals(v, img, ctx, e)]
    /\ UNCHANGED <<threat, score, sampler, loader, app, tasks>>

\* analyzeImage after the last await, and the rest of detectDeepfake: the score,
\* the decision and the threat level
AnalyzeImageScore ==
    /\ extract.stage = "extracted"
    /\ \E u \in DrawSequences(extract.variant) :
         extract' = [extract EXCEPT !.stage = "done"] @@
                    [u |-> u,
                     result |-> DetectionResultOf(extract.variant,
                                   scoreImage(extract.variant, extract.file, extract.img,
                                              extract.sig, u))]
    /\ UNCHANGED <<threat, score, sampler, loader, app, tasks>>

\* detectDeepfake on a video file named "deepfake_test.mp4" whose five frames
\* are the 64x64 buffer just analysed as an image: every frame has the
\* extractor results of that buffer (the image's result is kept for comparison)
AnalyzeVideoScore ==
    /\ extract.stage = "done" /\ extract.ctx /\ extract.img.width = 64
    /\ \E d \in VideoDurations, u \in DrawSequences(extract.variant) :
         LET file == [name |-> NAME.deepfake_test, type |-> STR.video,
                      size |-> 2 * 1024 * 1024]
         IN extract' = [stage |-> "video", variant |-> extract.variant,
                        sig |-> extract.sig, result |-> extract.result,
                        videoFile |-> file, videoDuration |-> d, videoDraws |-> u,
                        videoResult |->
                            DetectionResultOf(extract.variant,
                               scoreVideo(extract.variant, file,
                                          [i \in 1..NumFrames |-> extract.sig], d, u))]
    /\ UNCHANGED <<threat, score, sampler, loader, app, tasks>>

ExtractNext == AnalyzeImageExtract \/ AnalyzeImageScore \/ AnalyzeVideoScore

SpecExtract == ExtractInit /\ [][ExtractNext]_vars

\* C8: every extractor returns a defined number in [0,100] for every pixel buffer
\* of width >= 1 and height >= 1, degenerate buffers included: never NaN, never a
\* value out of range.
SignalsInRange ==
    extract.stage # "start" => \A k \in DOMAIN extract.sig : InRange(extract.sig[k])

\* the scenario of C10: a finished run on the 64x64 image whose every pixel is
\* (128,128,128,255), named "photo.jpg", of 50 KB, with a canvas context
GrayPhotoRun ==
    /\ extract.stage = "done" /\ extract.ctx
    /\ extract.img.width = 64 /\ extract.img.height = 64
    /\ \A i \in DOMAIN extract.img.data :
          extract.img.data[i] = (IF i % 4 = 3 THEN 255 ELSE 128)
    /\ extract.file.name = NAME.photo /\ extract.file.size = 50 * 1024

\* C10: the gray photo scenario gives artifactDetection 0, colour consistency 100
\* (where the variant has that extractor), imageQuality 0, a confidence at or near
\* the base value (at most 30, the largest base of the three policies), threatLevel
\* 'low' and isDeepfake false.
GrayPhotoScenario ==
    GrayPhotoRun =>
        /\ extract.result.analysis.artifactDetection = Num(0)
        /\ extract.variant # "aggressive" => extract.sig.colorConsistency = Num(100)
        /\ extract.result.analysis.imageQuality = Num(0)
        /\ RLe(extract.result.confidence, Num(30))
        /\ extract.result.threatLevel = "low"
        /\ ~extract.result.isDeepfake

\* every colour channel of the buffer stays within 4 levels above its value in
\* the first pixel, so that no Sobel magnitude exceeds 4 * 4 * sqrt(2) < 30
FlatBuffer(img) ==
    \A i \in DOMAIN img.data : i % 4 # 3 => (img.data[i] - img.data[i % 4]) \in 0..4

\* C13: with a canvas context, analyzeEdgeConsistency on a 1x1 buffer, and on any
\* buffer without a pixel whose Sobel magnitude exceeds the edge threshold (no
\* interior pixel, or a flat buffer), returns the fallback of the variant: 75
\* default, 50 aggressive, 85 conservative.
EdgeFallbackWithoutEdges ==
    (/\ extract.stage \in {"extracted", "done"} /\ extract.ctx
     /\ (extract.img.width <= 2 \/ extract.img.height <= 2 \/ FlatBuffer(extract.img)))
    => extract.sig.edgeConsistency =
          Num(CASE extract.variant = "default" -> 75
                [] extract.variant = "aggressive" -> 50
                [] extract.variant = "conservative" -> 85)

\* the 1x1 buffer in the default variant
EdgeFallbackWithoutEdgesWitness ==
    /\ extract.stage = "extracted" /\ extract.ctx /\ extract.variant = "default"
    /\ extract.img.width = 1 /\ extract.img.height = 1
    /\ extract.sig.edgeConsistency = Num(75)

\* all pixels of the buffer have the colour of the first one
UniformBuffer(img) == \A i \in DOMAIN img.data : img.data[i] = img.data[i % 4]

\* C14: with a canvas context, analyzeColorConsistency (default and conservative
\* detectors) returns exactly 100 for every buffer of one colour, whatever its
\* width and height, odd or even.
UniformColourFullyConsistent ==
    (/\ extract.stage \in {"extracted", "done"} /\ extract.ctx
     /\ extract.variant # "aggressive" /\ UniformBuffer(extract.img))
    => extract.sig.colorConsistency = Num(100)

\* a 5x1 buffer of the skin colour in the conservative variant
UniformColourFullyConsistentWitness ==
    /\ extract.stage = "extracted" /\ extract.ctx /\ extract.variant = "conservative"
    /\ extract.img.width = 5 /\ extract.img.height = 1
    /\ extract.img.data[0] = 200 /\ UniformBuffer(extract.img)
    /\ extract.sig.colorConsistency = Num(100)

\* the bonus the video scorer adds for a file name containing "deepfake"
VideoNameBonus(variant) ==
    CASE variant = "aggressive" -> 70
      [] variant = "default" -> 80
      [] variant = "conservative" -> 60

\* C11: the gray frames analysed as the video "deepfake_test.mp4" give a
\* confidence above that of the gray "photo.jpg" image by at least the filename
\* bonus less the jitter bound (20, the widest jitter of the three policies), and
\* isDeepfake is true whenever that confidence is above the decision threshold.
GrayVideoScenario ==
    extract.stage = "video" =>
        /\ RGe(extract.videoResult.confidence,
               RAdd(extract.result.confidence,
                    Num(VideoNameBonus(extract.variant) - 20)))
        /\ Gt(extract.videoResult.confidence, DecisionThreshold(extract.variant))
              => extract.videoResult.isDeepfake

---------------------------------------------------------------------------
(* SpecFrames: ImageProcessor.extractFramesFromVideo as the browser drives *)
(* it.  One call creates a video element, a canvas and a promise; the      *)
(* browser then delivers loadedmetadata or error, seeked after each seek,  *)
(* and load or error for each captured frame image.  A frame is recorded   *)
(* by the video time it was drawn at.                                      *)

\* the largest frame count and the longest video (in seconds) of the runs
MaxFrameCount == 5
MaxDuration == 3

\* the sampler before the call
SamplerIdle ==
    [promise |-> "none", ctx |-> FALSE, maxFrames |-> 0, duration |-> Num(0),
     interval |-> Num(0), currentTime |-> Num(0), frameCount |-> 0, frames |-> <<>>,
     videoTime |-> Num(0), loading |-> FALSE, seeking |-> FALSE, imageLoading |-> FALSE,
     imageTime |-> Num(0), seeks |-> <<>>, seeked |-> 0]

\* a mutant of extractFrame: the seek is issued twice
extractFrameTwice(s) == [s EXCEPT !.videoTime = s.currentTime, !.seeking = TRUE, !.seeks = Append(Append(s.seeks, s.currentTime), s.currentTime)]

\* extractFrame(): video.currentTime = currentTime starts a seek; seeks lists the
\* seeks issued so far by their target time, seeked counts the seeked events
extractFrame(s) ==
    [s EXCEPT !.videoTime = s.currentTime, !.seeking = TRUE,
              !.seeks = Append(s.seeks, s.currentTime)]

\* a mutant of MoreFrames: one frame too many
MoreFramesInclusive(frameCount, maxFrames) == frameCount <= maxFrames

\* if (frameCount < maxFrames): another frame is to be captured
MoreFrames(frameCount, maxFrames) == frameCount < maxFrames

\* resolve(value) and reject(error): a settled promise stays as it is
Settle(promise, outcome) == IF promise = "pending" THEN outcome ELSE promise

FramesInit ==
    /\ sampler = SamplerIdle
    /\ threat = Idle /\ score = Idle /\ extract = Idle
    /\ loader = Idle /\ app = Idle /\ tasks = Idle

\* extractFramesFromVideo(videoFile, maxFrames): the promise executor; video.src is
\* set and the video starts to load
ExtractFramesCall ==
    /\ sampler.promise = "none"
    /\ \E maxFrames \in 1..MaxFrameCount, duration \in 0..MaxDuration, ctx \in BOOLEAN :
         sampler' = [sampler EXCEPT !.promise = "pending", !.ctx = ctx,
                                    !.maxFrames = maxFrames, !.duration = Num(duration),
                                    !.loading = TRUE]
    /\ UNCHANGED <<threat, score, extract, loader, app, tasks>>

\* video.onloadedmetadata: the interval, and extractFrame() seeks to 0
LoadedMetadata ==
    /\ sampler.loading
    /\ sampler' = extractFrame([sampler EXCEPT
                                  !.loading = FALSE,
                                  !.interval = RDiv(sampler.duration, Num(sampler.maxFrames)),
                                  !.currentTime = Num(0), !.frameCount = 0])
    /\ UNCHANGED <<threat, score, extract, loader, app, tasks>>

\* video.onerror = reject: the video fails to load, or a seek fails
VideoError ==
    /\ sampler.loading \/ sampler.seeking
    /\ sampler' = [sampler EXCEPT !.loading = FALSE, !.seeking = FALSE,
                                  !.promise = Settle(sampler.promise, "rejected")]
    /\ UNCHANGED <<threat, score, extract, loader, app, tasks>>

\* video.onseeked: with a context the frame is drawn and its image starts to load
\* (img.src = canvas.toDataURL()); without one the handler does nothing
Seeked ==
    /\ sampler.seeking
    /\ sampler' = IF sampler.ctx
                  THEN [sampler EXCEPT !.seeking = FALSE, !.imageLoading = TRUE,
                                       !.imageTime = sampler.videoTime,
                                       !.seeked = sampler.seeked + 1]
                  ELSE [sampler EXCEPT !.seeking = FALSE,
                                       !.seeked = sampler.seeked + 1]
    /\ UNCHANGED <<threat, score, extract, loader, app, tasks>>

\* img.onload: the frame is kept; then the next seek, or resolve(frames)
ImageLoaded ==
    /\ sampler.imageLoading
    /\ LET frameCount == sampler.frameCount + 1
           currentTime == RAdd(sampler.currentTime, sampler.interval)
       IN sampler' =
            IF MoreFrames(frameCount, sampler.maxFrames)
            THEN extractFrame([sampler EXCEPT
                                 !.imageLoading = FALSE,
                                 !.frames = Append(sampler.frames, sampler.imageTime),
                                 !.frameCount = frameCount,
                                 !.currentTime = currentTime])
            ELSE [sampler EXCEPT !.imageLoading = FALSE,
                                 !.frames = Append(sampler.frames, sampler.imageTime),
                                 !.frameCount = frameCount,
                                 !.promise = Settle(sampler.promise, "resolved")]
    /\ UNCHANGED <<threat, score, extract, loader, app, tasks>>

\* the captured image fails to load: img has no onerror handler
ImageError ==
    /\ sampler.imageLoading
    /\ sampler' = [sampler EXCEPT !.imageLoading = FALSE]
    /\ UNCHANGED <<threat, score, extract, loader, app, tasks>>

FramesNext ==
    \/ ExtractFramesCall
    \/ LoadedMetadata
    \/ VideoError
    \/ Seeked
    \/ ImageLoaded
    \/ ImageError

SpecFrames == FramesInit /\ [][FramesNext]_vars

\* every event the browser has pending is eventually delivered
SpecFramesFair == SpecFrames /\ WF_vars(FramesNext)

\* the timestamps k * D / N for k = 0 .. N - 1
EvenTimestamps(duration, maxFrames) ==
    [k \in 1..maxFrames |-> RDiv(RMul(Num(k - 1), duration), Num(maxFrames))]

\* C6 as stated: a resolved extraction holds exactly N frames, captured at k * D / N
\* for k = 0 .. N - 1 in chronological order, no timestamp twice.
ResolvesWithDistinctEvenFrames ==
    sampler.promise = "resolved" =>
        /\ sampler.frames = EvenTimestamps(sampler.duration, sampler.maxFrames)
        /\ \A i, j \in 1..Len(sampler.frames) :
              i < j => RLt(sampler.frames[i], sampler.frames[j])

\* C6 amended: a resolved extraction holds exactly N frames, captured at k * D / N
\* for k = 0 .. N - 1 in that order; the timestamps are strictly increasing when
\* D > 0, and all equal to 0 when D = 0.
ResolvesWithEvenFrames ==
    sampler.promise = "resolved" =>
        /\ Len(sampler.frames) = sampler.maxFrames
        /\ sampler.frames = EvenTimestamps(sampler.duration, sampler.maxFrames)
        /\ \A i, j \in 1..Len(sampler.frames) :
              i < j => IF Gt(sampler.duration, 0)
                       THEN RLt(sampler.frames[i], sampler.frames[j])
                       ELSE sampler.frames[i] = Num(0) /\ sampler.frames[j] = Num(0)

\* a 3-second video resolved with 5 frames, the last at 12/5 s
ResolvesWithEvenFramesWitness ==
    /\ sampler.promise = "resolved"
    /\ sampler.maxFrames = 5 /\ sampler.duration = Num(3)
    /\ Len(sampler.frames) = 5 /\ sampler.frames[5] = Frac(12, 5)

\* C23: the seek for frame k + 1 is issued only after frame k was captured
\* (seeked received, frame drawn, image loaded and appended to frames); no two
\* seeks are ever outstanding, and the frames are in the order of the seeks.
SeeksAreSequential ==
    /\ Len(sampler.seeks) - sampler.seeked <= 1
    /\ Len(sampler.seeks) <= Len(sampler.frames) + 1
    /\ Len(sampler.frames) <= sampler.seeked
    /\ sampler.frames = SubSeq(sampler.seeks, 1, Len(sampler.frames))
    /\ sampler.seeking \/ sampler.imageLoading
          => Len(sampler.seeks) = Len(sampler.frames) + 1

\* the third seek of a 3-second, 5-frame extraction is outstanding, two frames
\* are in the list
SeeksAreSequentialWitness ==
    /\ sampler.promise = "pending" /\ sampler.seeking
    /\ sampler.maxFrames = 5 /\ sampler.duration = Num(3)
    /\ sampler.seeks = <<Num(0), Frac(3, 5), Frac(6, 5)>>
    /\ sampler.frames = <<Num(0), Frac(3, 5)>>
    /\ sampler.seeked = 2

\* C7: whatever the decode events, the promise of extractFramesFromVideo eventually
\* settles (resolved or rejected); it never stays pending forever.
ExtractionSettles ==
    (sampler.promise = "pending") ~> (sampler.promise \in {"resolved", "rejected"})

---------------------------------------------------------------------------
(* ModelLoader, and detectDeepfake from its readiness check to its result  *)

\* the declared media types (File.type) of the sample files; none is the
\* empty type of a file the browser knows no type for
TYPE == [jpeg |-> <<"i", "m", "a", "g", "e", "/", "j", "p", "e", "g">>,
         mp4 |-> <<"v", "i", "d", "e", "o", "/", "m", "p", "4">>,
         pdf |-> <<"a", "p", "p", "l", "i", "c", "a", "t", "i", "o", "n", "/", "p", "d", "f">>,
         none |-> << >>]

\* a ModelLoader after construction: both models null (FALSE), not loading;
\* deepfakeModelsCreated and faceDetectionModelsCreated count the calls of
\* createDeepfakeDetectionModel and createFaceDetectionModel that returned
NoModels ==
    [deepfakeModel |-> FALSE, faceDetectionModel |-> FALSE, isLoading |-> FALSE,
     deepfakeModelsCreated |-> 0, faceDetectionModelsCreated |-> 0]

\* a mutant of isModelsReady: one model is enough
isModelsReadyEither(l) == l.deepfakeModel \/ l.faceDetectionModel

isModelsReady(l) == l.deepfakeModel /\ l.faceDetectionModel

\* initializeModels up to its first await: a call made while another one is
\* loading returns at once
initializeModelsCall(l) == IF l.isLoading THEN l ELSE [l EXCEPT !.isLoading = TRUE]

\* how the try block of initializeModels ends: the backend is rejected before
\* any model is created, the second creation throws, or both are created
LoadOutcomes == {"rejected", "deepfakeOnly", "created"}

\* a mutant of initializeModelsRest: the call starts from empty fields
initializeModelsRestFresh(l, outcome) == [l EXCEPT !.deepfakeModel = outcome \in {"deepfakeOnly", "created"}, !.faceDetectionModel = outcome = "created", !.isLoading = FALSE]

\* initializeModels after its awaits: the assignments reached, then finally
initializeModelsRest(l, outcome) ==
    [deepfakeModel |-> l.deepfakeModel \/ outcome \in {"deepfakeOnly", "created"},
     faceDetectionModel |-> l.faceDetectionModel \/ outcome = "created",
     isLoading |-> FALSE,
     deepfakeModelsCreated |->
         l.deepfakeModelsCreated + (IF outcome \in {"deepfakeOnly", "created"} THEN 1 ELSE 0),
     faceDetectionModelsCreated |->
         l.faceDetectionModelsCreated + (IF outcome = "created" THEN 1 ELSE 0)]

\* what a file holds: a picture or a clip the browser decodes (with the
\* extractor results of its frames), or bytes it decodes as neither
Contents ==
    [picture |-> [kind |-> "picture", img |-> [width |-> 300, height |-> 400],
                  sig |-> DamagedFrame],
     clip |-> [kind |-> "clip", frameSigs |-> [i \in 1..NumFrames |-> DamagedFrame],
               videoDuration |-> Num(30)],
     broken |-> [kind |-> "broken"]]

\* the Math.random() values of one analysis
HalfDraws == [i \in 1..(NumFrames + 2) |-> Frac(1, 2)]

\* a rejected call: the error thrown, no extractor run unless the flag says so
Thrown(message) == [error |-> message, extractors |-> FALSE, result |-> << >>]

\* analyzeImage: loadImage rejects on onerror, else the extractors run
analyzeImage(variant, file) ==
    IF file.content.kind = "picture"
    THEN [error |-> "none", extractors |-> TRUE,
          result |-> <<DetectionResultOf(variant,
                          scoreImage(variant, file, file.content.img,
                                     file.content.sig, HalfDraws))>>]
    ELSE Thrown("load")

\* analyzeVideo: extractFramesFromVideo rejects on video.onerror, else the
\* extractors run on the frames
analyzeVideo(variant, file) ==
    IF file.content.kind = "clip"
    THEN [error |-> "none", extractors |-> TRUE,
          result |-> <<DetectionResultOf(variant,
                          scoreVideo(variant, file, file.content.frameSigs,
                                     file.content.videoDuration, HalfDraws))>>]
    ELSE Thrown("load")

\* detectDeepfake on a loader l: the readiness check, then the type check
detectDeepfake(variant, l, file) ==
    IF ~isModelsReady(l) THEN Thrown("Models not initialized")
    ELSE IF startsWith(file.type, STR.image) THEN analyzeImage(variant, file)
    ELSE IF startsWith(file.type, STR.video) THEN analyzeVideo(variant, file)
    ELSE Thrown("Unsupported file type")

\* the uploaded files: each declared type with contents that decode and
\* contents that do not
UploadFiles ==
    {[name |-> NAME.photo, type |-> TYPE.jpeg, size |-> 50 * 1024, content |-> Contents.picture],
     [name |-> NAME.photo, type |-> TYPE.jpeg, size |-> 50 * 1024, content |-> Contents.broken],
     [name |-> NAME.deepfake_test, type |-> TYPE.mp4, size |-> 2 * 1024 * 1024,
      content |-> Contents.clip],
     [name |-> NAME.clip, type |-> TYPE.mp4, size |-> 2 * 1024 * 1024, content |-> Contents.broken],
     [name |-> NAME.notes, type |-> TYPE.pdf, size |-> 50 * 1024, content |-> Contents.broken],
     [name |-> NAME.DeepFake, type |-> TYPE.none, size |-> 50 * 1024, content |-> Contents.picture]}

\* detectDeepfake calls of one run
MaxCalls == 2

\* the runs stop calling initializeModels once a model was created this often
MaxCreations == 2

\* the call as the log keeps it: the file, which models the loader held at
\* the call, the outcome
CallRecord(variant, l, file) ==
    [file |-> file,
     models |-> [deepfakeModel |-> l.deepfakeModel,
                 faceDetectionModel |-> l.faceDetectionModel],
     outcome |-> detectDeepfake(variant, l, file)]

---------------------------------------------------------------------------
(* Specification SpecDetect: initializeModels and detectDeepfake called in *)
(* any order on one DeepfakeDetector.                                      *)

DetectInit ==
    /\ loader = NoModels
    /\ \E v \in Variants : tasks = [variant |-> v, calls |-> << >>]
    /\ threat = Idle /\ score = Idle /\ extract = Idle /\ sampler = Idle /\ app = Idle

\* DeepfakeDetector.initialize() up to the first await of initializeModels
Initialize ==
    /\ loader.deepfakeModelsCreated < MaxCreations
    /\ loader' = initializeModelsCall(loader)
    /\ UNCHANGED <<threat, score, extract, sampler, app, tasks>>

\* the pending initializeModels resumes and runs to its end
ModelsSettle ==
    /\ loader.isLoading
    /\ \E outcome \in LoadOutcomes : loader' = initializeModelsRest(loader, outcome)
    /\ UNCHANGED <<threat, score, extract, sampler, app, tasks>>

DetectDeepfake ==
    /\ Len(tasks.calls) < MaxCalls
    /\ \E file \in UploadFiles :
         tasks' = [tasks EXCEPT
                     !.calls = Append(@, CallRecord(tasks.variant, loader, file))]
    /\ UNCHANGED <<threat, score, extract, sampler, loader, app>>

DetectNext == Initialize \/ ModelsSettle \/ DetectDeepfake

SpecDetect == DetectInit /\ [][DetectNext]_vars

\* both models were non-null when the call was made
BothModelsAt(call) == call.models.deepfakeModel /\ call.models.faceDetectionModel

\* C4: a detectDeepfake call made while a model is missing fails with 'Models
\* not initialized', whatever the file, runs no extractor and returns no
\* result; a call made with both models present never fails with that error.
NotReadyCallsFail ==
    \A i \in 1..Len(tasks.calls) :
      LET call == tasks.calls[i]
      IN IF BothModelsAt(call)
         THEN call.outcome.error # "Models not initialized"
         ELSE /\ call.outcome.error = "Models not initialized"
              /\ ~call.outcome.extractors
              /\ call.outcome.result = << >>

\* the same file is refused before the models are there and analysed after
NotReadyCallsFailWitness ==
    /\ Len(tasks.calls) = 2
    /\ tasks.calls[1].file = tasks.calls[2].file
    /\ ~BothModelsAt(tasks.calls[1])
    /\ tasks.calls[1].outcome.error = "Models not initialized"
    /\ BothModelsAt(tasks.calls[2])
    /\ tasks.calls[2].outcome.error = "none"

\* C24: over any sequence of initializeModels calls on the shared ModelLoader,
\* sequential or overlapping, each of the two models is constructed at most
\* once; a call made after the models are ready does not create them again.
ModelsConstructedOnce ==
    /\ loader.deepfakeModelsCreated <= 1
    /\ loader.faceDetectionModelsCreated <= 1

\* C27: readiness is stable: once isModelsReady() is true it is true in every
\* later state, whatever initializeModels calls follow, also those in which
\* the backend setup or a model creation throws.
ReadinessIsStable ==
    [][isModelsReady(loader) => isModelsReady(loader')]_vars

\* the models were ready, and a later initializeModels call created the
\* deepfake model again and threw in createFaceDetectionModel
ReadinessIsStableWitness ==
    /\ isModelsReady(loader) /\ ~loader.isLoading
    /\ loader.deepfakeModelsCreated = 2
    /\ loader.faceDetectionModelsCreated = 1

\* C5: with both models present, a file whose type starts with neither
\* 'image/' nor 'video/' fails with 'Unsupported file type' and yields no
\* result; a file whose type starts with one of them never fails so.
UnsupportedTypesFail ==
    \A i \in 1..Len(tasks.calls) :
      LET call == tasks.calls[i]
      IN BothModelsAt(call) =>
           /\ call.file.type \in {TYPE.pdf, TYPE.none} =>
                /\ call.outcome.error = "Unsupported file type"
                /\ call.outcome.result = << >>
           /\ call.file.type \in {TYPE.jpeg, TYPE.mp4} =>
                call.outcome.error # "Unsupported file type"

\* a PDF is refused and a video analysed, both with the models present
UnsupportedTypesFailWitness ==
    /\ Len(tasks.calls) = 2
    /\ BothModelsAt(tasks.calls[1]) /\ BothModelsAt(tasks.calls[2])
    /\ tasks.calls[1].file.type = TYPE.pdf
    /\ tasks.calls[1].outcome.error = "Unsupported file type"
    /\ tasks.calls[2].file.type = TYPE.mp4
    /\ tasks.calls[2].outcome.error = "none"

---------------------------------------------------------------------------
(* Specification Spec: the App component. MLModelStatus reports the        *)
(* TensorFlow backend, the effect initialises the detector, and            *)
(* handleFileUpload runs batches through detectDeepfake.                   *)

\* App.tsx imports DeepfakeDetector from './utils/deepfakeDetector'
AppDetector == "aggressive"

\* the 'type' of a results record
RecordType(file) == IF startsWith(file.type, STR.video) THEN "video" ELSE "image"

\* the record handleFileUpload builds from mlResult (id and timestamp, a
\* random string and the wall clock, are left out)
resultRecord(file, mlResult) ==
    [filename |-> file.name, type |-> RecordType(file),
     confidence |-> mlResult.confidence, isDeepfake |-> mlResult.isDeepfake,
     threatLevel |-> mlResult.threatLevel,
     analysisDetails |->
         [faceDetection |-> mlResult.analysis.faceDetection,
          temporalConsistency |-> mlResult.analysis.temporalConsistency,
          artifactDetection |-> mlResult.analysis.artifactDetection]]

\* the record of the catch block
fallbackResult(file) ==
    [filename |-> file.name, type |-> RecordType(file),
     confidence |-> Num(0), isDeepfake |-> FALSE, threatLevel |-> "low",
     analysisDetails |->
         [faceDetection |-> Num(0), temporalConsistency |-> Num(0),
          artifactDetection |-> Num(0)]]

\* a mutant of prependResult: the new record is put last
prependResultLast(result, prev) == Append(prev, result)

\* setDetectionResults(prev => [result, ...prev])
prependResult(result, prev) == <<result>> \o prev

\* a mutant of the loop body: a failed file leaves no record
handleFileUploadStepSilent(prev, file, outcome) == IF outcome.result # << >> THEN prependResult(resultRecord(file, outcome.result[1]), prev) ELSE prev

\* the body of the for loop: detectionResults after one file, the new record
\* first
handleFileUploadStep(prev, file, outcome) ==
    IF outcome.result # << >>
    THEN prependResult(resultRecord(file, outcome.result[1]), prev)
    ELSE prependResult(fallbackResult(file), prev)

\* the batches of at most n files
Batches(n) == UNION {[1..k -> UploadFiles] : k \in 0..n}

\* the files handed to handleFileUpload: a picture, a file of the same name
\* that does not decode, a clip, and a PDF picked in the file dialog
AppFiles == {file \in UploadFiles : file.name \in {NAME.photo, NAME.deepfake_test, NAME.notes}}

\* tasks.uploads lists the handleFileUpload invocations that entered the loop:
\* the files, the index of the file awaited, and the numbers (positions in
\* tasks.calls) of the detectDeepfake calls made for them so far
AppInit ==
    /\ loader = NoModels
    /\ app = [isModelReady |-> FALSE, areDetectorModelsReady |-> FALSE,
              isProcessing |-> FALSE, detectionResults |-> << >>]
    /\ tasks = [variant |-> AppDetector, calls |-> << >>, effect |-> "scheduled",
                uploads |-> << >>, submitted |-> 0, alerted |-> FALSE]
    /\ threat = Idle /\ score = Idle /\ extract = Idle /\ sampler = Idle

\* MLModelStatus, mounted with the upload tab, calls onModelReady(true) three
\* seconds after the backend is up and onModelReady(false) when it is not;
\* a changed isModelReady schedules the effect
OnModelReady ==
    /\ \E ready \in BOOLEAN :
         /\ app' = [app EXCEPT !.isModelReady = ready]
         /\ tasks' = [tasks EXCEPT
                        !.effect = IF ready # app.isModelReady THEN "scheduled" ELSE @]
    /\ UNCHANGED <<threat, score, extract, sampler, loader>>

\* the effect: initializeDetector up to the await inside initializeModels; an
\* initialize() that finds the loader loading returns at once, and the
\* detector is marked ready
InitializeDetector ==
    /\ tasks.effect = "scheduled"
    /\ IF app.isModelReady /\ ~app.areDetectorModelsReady
       THEN IF loader.isLoading
            THEN /\ app' = [app EXCEPT !.areDetectorModelsReady = TRUE]
                 /\ UNCHANGED <<loader, tasks>>
            ELSE /\ loader' = initializeModelsCall(loader)
                 /\ tasks' = [tasks EXCEPT !.effect = "none"]
                 /\ UNCHANGED app
       ELSE /\ tasks' = [tasks EXCEPT !.effect = "none"]
            /\ UNCHANGED <<loader, app>>
    /\ UNCHANGED <<threat, score, extract, sampler>>

\* initializeModels ends, whatever it created, and initializeDetector marks
\* the detector ready
InitializeDetectorRest ==
    /\ loader.isLoading
    /\ \E outcome \in LoadOutcomes : loader' = initializeModelsRest(loader, outcome)
    /\ app' = [app EXCEPT !.areDetectorModelsReady = TRUE]
    /\ tasks' = [tasks EXCEPT
                   !.effect = IF app.areDetectorModelsReady THEN @ ELSE "scheduled"]
    /\ UNCHANGED <<threat, score, extract, sampler>>

\* the invocation k of handleFileUpload still has a file to await
Running(k) == tasks.uploads[k].next <= Len(tasks.uploads[k].files)

\* handleFileUpload(files) up to its first await: the readiness test, then
\* setIsProcessing(true) and the first detectDeepfake call; with no file the
\* loop is skipped and setIsProcessing(false) follows at once.  The function
\* itself does not look at isProcessing.
HandleFileUpload ==
    /\ \E files \in {batch \in Batches(MaxCalls - tasks.submitted) :
                          \A i \in 1..Len(batch) : batch[i] \in AppFiles} :
         IF ~app.areDetectorModelsReady
         THEN /\ tasks' = [tasks EXCEPT !.alerted = TRUE]
              /\ UNCHANGED app
         ELSE IF files = << >>
         THEN /\ app' = [app EXCEPT !.isProcessing = FALSE]
              /\ UNCHANGED tasks
         ELSE /\ app' = [app EXCEPT !.isProcessing = TRUE]
              /\ tasks' = [tasks EXCEPT
                             !.uploads = Append(@, [files |-> files, next |-> 1,
                                                    calls |-> << >>]),
                             !.submitted = @ + Len(files)]
    /\ UNCHANGED <<threat, score, extract, sampler, loader>>

\* one turn of the loop of an invocation: detectDeepfake settles for its next
\* file, the record is put first, and after its last file
\* setIsProcessing(false) runs
ProcessFile ==
    /\ \E k \in 1..Len(tasks.uploads) :
         /\ Running(k)
         /\ LET upload == tasks.uploads[k]
                file == upload.files[upload.next]
                call == CallRecord(tasks.variant, loader, file)
                last == upload.next = Len(upload.files)
            IN /\ app' = [app EXCEPT
                            !.detectionResults = handleFileUploadStep(@, file, call.outcome),
                            !.isProcessing = IF last THEN FALSE ELSE @]
               /\ tasks' = [tasks EXCEPT
                              !.calls = Append(@, call),
                              !.uploads[k] =
                                  [upload EXCEPT !.next = @ + 1,
                                                 !.calls = Append(@, Len(tasks.calls) + 1)]]
    /\ UNCHANGED <<threat, score, extract, sampler, loader>>

Next == OnModelReady \/ InitializeDetector \/ InitializeDetectorRest
            \/ HandleFileUpload \/ ProcessFile

Spec == AppInit /\ [][Next]_vars

\* the invocation k of handleFileUpload has run to its end
BatchDone(k) == ~Running(k)

\* the detectDeepfake call made for the i-th file of the invocation k
BatchCall(k, i) == tasks.calls[tasks.uploads[k].calls[i]]

\* the record added for the i-th file of the invocation k: the c-th record
\* added is the c-th from the end of detectionResults
BatchRecord(k, i) ==
    app.detectionResults[Len(app.detectionResults) - tasks.uploads[k].calls[i] + 1]

\* C3: a batch of N files, started with the detector marked ready, runs
\* detectDeepfake on every file whatever failed before, and ends with exactly
\* N records added, the record of a failed file having confidence 0,
\* isDeepfake false and threatLevel 'low'.
FailedFilesKeepTheBatchGoing ==
    /\ Len(app.detectionResults) = Len(tasks.calls)
    /\ \A k \in 1..Len(tasks.uploads) :
         BatchDone(k) =>
           LET N == Len(tasks.uploads[k].files)
           IN /\ Len(tasks.uploads[k].calls) = N
              /\ \A i \in 1..N :
                   /\ BatchCall(k, i).file = tasks.uploads[k].files[i]
                   /\ BatchRecord(k, i).filename = tasks.uploads[k].files[i].name
                   /\ BatchCall(k, i).outcome.error # "none" =>
                        /\ BatchRecord(k, i).confidence = Num(0)
                        /\ ~BatchRecord(k, i).isDeepfake
                        /\ BatchRecord(k, i).threatLevel = "low"

\* a batch of two whose first file failed and whose second file was analysed
FailedFilesKeepTheBatchGoingWitness ==
    /\ Len(tasks.uploads) = 1 /\ BatchDone(1)
    /\ Len(tasks.uploads[1].files) = 2
    /\ BatchCall(1, 1).outcome.error = "Unsupported file type"
    /\ BatchCall(1, 2).outcome.error = "none"
    /\ Len(app.detectionResults) = 2
    /\ app.detectionResults[1].confidence # Num(0)
    /\ app.detectionResults[2].threatLevel = "low"

\* the records follow the processing: one record per detectDeepfake call made,
\* the record of the c-th call c-th from the end; the calls of an invocation are
\* made for its files in their order; with every invocation at its end there is
\* one record per submitted file
RecordsFollowProcessing ==
    /\ Len(app.detectionResults) = Len(tasks.calls)
    /\ \A c \in 1..Len(tasks.calls) :
         LET record == app.detectionResults[Len(app.detectionResults) - c + 1]
         IN /\ record.filename = tasks.calls[c].file.name
            /\ record.type = RecordType(tasks.calls[c].file)
    /\ \A k \in 1..Len(tasks.uploads) :
         LET upload == tasks.uploads[k]
         IN /\ Len(upload.calls) = upload.next - 1
            /\ \A i \in 1..Len(upload.calls) :
                 /\ tasks.calls[upload.calls[i]].file = upload.files[i]
                 /\ i > 1 => upload.calls[i - 1] < upload.calls[i]
    /\ (\A k \in 1..Len(tasks.uploads) : BatchDone(k))
         => Len(app.detectionResults) = tasks.submitted

\* C25: after any sequence of handleFileUpload batches run with the detector
\* ready, detectionResults holds exactly one record per submitted file, most
\* recently processed first, the files of a batch processed in batch order; a
\* step that adds a record puts it in front and leaves the records already in
\* the list as they were, in their order.
OneRecordPerFileNewestFirst ==
    /\ []RecordsFollowProcessing
    /\ [][app.detectionResults' # app.detectionResults
            => /\ Len(app.detectionResults') = Len(app.detectionResults) + 1
               /\ Tail(app.detectionResults') = app.detectionResults]_vars

\* two batches of one file each have run; the record of the second is first
OneRecordPerFileNewestFirstWitness ==
    /\ Len(tasks.uploads) = 2 /\ BatchDone(1) /\ BatchDone(2)
    /\ tasks.uploads[1].calls = <<1>> /\ tasks.uploads[2].calls = <<2>>
    /\ tasks.uploads[1].files[1].name # tasks.uploads[2].files[1].name
    /\ Len(app.detectionResults) = 2
    /\ app.detectionResults[1].filename = tasks.uploads[2].files[1].name
    /\ app.detectionResults[2].filename = tasks.uploads[1].files[1].name

DetectorReadyMeansModelsReady ==
    /\ app.areDetectorModelsReady => isModelsReady(loader)
    /\ \A c \in 1..Len(tasks.calls) :
         tasks.calls[c].outcome.error # "Models not initialized"

---------------------------------------------------------------------------
(* Specification SpecTemporal: calculateTemporalConsistency applied to     *)
(* frame sequences of every length from 0 to NumFrames.                    *)

\* a mutant of calculateTemporalConsistency: every variant uses the default's
calculateTemporalConsistencyAllDefault(variant, frameAnalyses) == calculateTemporalConsistencyDefault(frameAnalyses)

calculateTemporalConsistency(variant, frameAnalyses) ==
    CASE variant = "aggressive" -> calculateTemporalConsistencyAggressive(frameAnalyses)
      [] variant = "default" -> calculateTemporalConsistencyDefault(frameAnalyses)
      [] variant = "conservative" -> calculateTemporalConsistencyConservative(frameAnalyses)

\* the extractor results of a uniform gray frame: no face, no artifact, no
\* sharpness
\* (GrayFrame); FrameAnalyses are the DetectionAnalysis analyzeVideo pushes for
\* a clean, a damaged and a gray frame, with a low and a high frame suspicion
GrayFrame ==
    [CleanFrame EXCEPT !.faceDetectionScore = Num(0), !.imageQuality = Num(0)]

FrameAnalyses ==
    {[faceDetection |-> sig.faceDetectionScore, temporalConsistency |-> Num(0),
      artifactDetection |-> sig.artifactScore, imageQuality |-> sig.imageQuality,
      neuralNetworkConfidence |-> Num(c)] :
        sig \in FrameSignalSets \cup {GrayFrame}, c \in {10, 95}}

TemporalConsistency ==
    /\ ~score.called
    /\ \E k \in 0..NumFrames : \E frameAnalyses \in [1..k -> FrameAnalyses] :
         score' = [called |-> TRUE, variant |-> score.variant, kind |-> "temporal",
                   frameAnalyses |-> frameAnalyses,
                   temporalConsistency |->
                       calculateTemporalConsistency(score.variant, frameAnalyses)]
    /\ UNCHANGED <<threat, extract, sampler, loader, app, tasks>>

SpecTemporal == ScoreInit /\ [][TemporalConsistency]_vars

\* C12: on fewer than two frames calculateTemporalConsistency returns the fixed
\* default of the variant (100 aggressive and default, 90 conservative),
\* whatever the signals of the single frame.
SingleFrameNeutral ==
    score.called /\ Len(score.frameAnalyses) < 2 =>
        score.temporalConsistency =
            Num(IF score.variant = "conservative" THEN 90 ELSE 100)

\* one damaged frame in the conservative variant gives 90
SingleFrameNeutralWitness ==
    /\ score.called /\ score.variant = "conservative"
    /\ Len(score.frameAnalyses) = 1
    /\ score.frameAnalyses[1].artifactDetection = Num(100)
    /\ score.temporalConsistency = Num(90)

\* max(0, 100 - (0.4 |dFace| + 0.4 |dArtifact| + 0.2 |dQuality|)) of the frames
\* i and i + 1 of the analysed sequence
WeightedPairConsistency(i) ==
    LET d(field) == RAbs(RSub(score.frameAnalyses[i][field],
                              score.frameAnalyses[i + 1][field]))
        w == RAdd(RAdd(RMul(Frac(4, 10), d("faceDetection")),
                       RMul(Frac(4, 10), d("artifactDetection"))),
                  RMul(Frac(2, 10), d("imageQuality")))
    IN IF RLt(RSub(Num(100), w), Num(0)) THEN Num(0) ELSE RSub(Num(100), w)

\* C21: on two or more frame analyses with signals in [0,100],
\* calculateTemporalConsistency returns the mean over the consecutive pairs of
\* max(0, 100 - (0.4 |dFace| + 0.4 |dArtifact| + 0.2 |dQuality|)); the result
\* lies in [0,100] and is 100 when all frames have the same signals.
TemporalIsWeightedMean ==
    score.called /\ Len(score.frameAnalyses) >= 2 =>
        LET n == Len(score.frameAnalyses)
            pairs == [i \in 1..(n - 1) |-> WeightedPairConsistency(i)]
        IN /\ score.temporalConsistency = RDiv(SumSeq(pairs), Num(n - 1))
           /\ InRange(score.temporalConsistency)
           /\ ((\A i \in 1..(n - 1) :
                   \A field \in {"faceDetection", "artifactDetection", "imageQuality"} :
                       score.frameAnalyses[i][field] = score.frameAnalyses[i + 1][field])
               => score.temporalConsistency = Num(100))

\* C29: in the conservative variant calculateTemporalConsistency returns at
\* least 60 for every frame sequence, so neither temporal-consistency test of
\* analyzeVideo (below 40, below 25) is ever true.
ConservativeTemporalFloor ==
    score.called /\ score.variant = "conservative" =>
        /\ RGe(score.temporalConsistency, Num(60))
        /\ ~Lt(score.temporalConsistency, 40)
        /\ ~Lt(score.temporalConsistency, 25)

\* a clean frame followed by a damaged one, every signal changing by as much
\* as the sample frames allow: 73.75
ConservativeTemporalFloorWitness ==
    /\ score.called /\ score.variant = "conservative"
    /\ Len(score.frameAnalyses) = 2
    /\ score.frameAnalyses[1].artifactDetection = Num(0)
    /\ score.frameAnalyses[2].artifactDetection = Num(100)
    /\ score.temporalConsistency = Frac(295, 4)

---------------------------------------------------------------------------
(* Specification SpecExport: the AuditLog component exports the results it *)
(* was given.  Its props are the detectionResults App holds after a batch  *)
(* of detectDeepfake calls on a ready detector.                            *)

\* JSON.stringify writes a finite number by digits that parse back to it, and
\* NaN or an infinity as null
JSONNumber(x) == IF IsFinite(x) THEN x ELSE [null |-> TRUE]

\* filteredLogs: the search term is empty (every filename includes ''), the
\* type and result filters as selected; the records are already newest first
filteredLogs(results, filterType, filterResult) ==
    SelectSeq(results,
              LAMBDA result :
                  /\ (filterType = "all" \/ result.type = filterType)
                  /\ (filterResult = "all"
                      \/ (filterResult = "deepfake" /\ result.isDeepfake)
                      \/ (filterResult = "authentic" /\ ~result.isDeepfake)))

\* logData of exportLog as the JSON text holds it (timestamp left out, as in
\* the records)
logData(logs) ==
    [i \in 1..Len(logs) |->
        [filename |-> logs[i].filename, type |-> logs[i].type,
         isDeepfake |-> logs[i].isDeepfake,
         confidence |-> JSONNumber(logs[i].confidence),
         threatLevel |-> logs[i].threatLevel,
         faceDetection |-> JSONNumber(logs[i].analysisDetails.faceDetection),
         temporalConsistency |-> JSONNumber(logs[i].analysisDetails.temporalConsistency),
         artifactDetection |-> JSONNumber(logs[i].analysisDetails.artifactDetection)]]

\* JSON.parse of the exported text: the same objects, null staying null
parseLog(json) == [i \in 1..Len(json) |-> json[i]]

\* a loader whose models were created
ReadyModels == initializeModelsRest(NoModels, "created")

ExportInit ==
    /\ \E v \in Variants, files \in Batches(MaxCalls) :
         LET n == Len(files)
             calls == [k \in 1..n |-> CallRecord(v, ReadyModels, files[k])]
         IN /\ tasks = [variant |-> v, calls |-> calls, exported |-> FALSE]
            /\ app = [detectionResults |->
                         [i \in 1..n |->
                             Head(handleFileUploadStep(<< >>, files[n - i + 1],
                                                       calls[n - i + 1].outcome))]]
    /\ loader = ReadyModels
    /\ threat = Idle /\ score = Idle /\ extract = Idle /\ sampler = Idle

\* the Export button: exportLog writes the file, which is then parsed back
ExportLog ==
    /\ ~tasks.exported
    /\ \E filterType \in {"all", "image", "video"},
          filterResult \in {"all", "deepfake", "authentic"} :
         tasks' = [tasks EXCEPT !.exported = TRUE] @@
                  [filterType |-> filterType, filterResult |-> filterResult,
                   parsed |-> parseLog(logData(filteredLogs(app.detectionResults,
                                                            filterType, filterResult)))]
    /\ UNCHANGED <<threat, score, extract, sampler, loader, app>>

SpecExport == ExportInit /\ [][ExportLog]_vars

\* the positions in detectionResults of the records that were exported, in order
ExportedPositions ==
    SelectSeq([i \in 1..Len(app.detectionResults) |-> i],
              LAMBDA i :
                  Len(filteredLogs(<<app.detectionResults[i]>>,
                                   tasks.filterType, tasks.filterResult)) = 1)

\* C15: every exported detection result comes back from the parsed export with
\* its confidence, its threatLevel and every sub-score of its analysis
\* (faceDetection, temporalConsistency, artifactDetection, imageQuality).
ExportRoundTrip ==
    tasks.exported =>
      \A j \in 1..Len(tasks.parsed) :
        LET call == tasks.calls[Len(tasks.calls) - ExportedPositions[j] + 1]
            entry == tasks.parsed[j]
        IN call.outcome.error = "none" =>
             LET result == call.outcome.result[1]
             IN /\ entry.confidence = result.confidence
                /\ entry.threatLevel = result.threatLevel
                /\ entry.faceDetection = result.analysis.faceDetection
                /\ entry.temporalConsistency = result.analysis.temporalConsistency
                /\ entry.artifactDetection = result.analysis.artifactDetection
                /\ "imageQuality" \in DOMAIN entry
                /\ entry.imageQuality = result.analysis.imageQuality

=============================================================================
